---- MODULE Spec2Model ----
(***************************************************************************)
(* A model of the rendering core of the browser: the markup parser         *)
(* (src/requests.py, HTMLParser) and the stylesheet parser                 *)
(* (src/cssparser.py, CSSParser).  Text is a sequence of one-character     *)
(* strings; an object is a record in a store, named by its index.          *)
(***************************************************************************)
EXTENDS Integers, Sequences, FiniteSets, TLC

VARIABLES body, i, buffer, in_tag, unfinished, nodes, root, pc,
          sheet, s, si, rules, cpc,
          styles, todo, spc,
          lay, document, display_list, passes,
          history, url, scroll

vars == <<body, i, buffer, in_tag, unfinished, nodes, root, pc,
          sheet, s, si, rules, cpc,
          styles, todo, spc,
          lay, document, display_list, passes,
          history, url, scroll>>

htmlVars == <<body, i, buffer, in_tag, unfinished, nodes, root, pc>>
cssVars == <<sheet, s, si, rules, cpc>>
styleVars == <<styles, todo, spc>>
\* the state of what runs after the two parsers
tabVars == <<history, url, scroll>>
layoutVars == <<lay, document, display_list, passes, tabVars>>
restVars == <<styleVars, layoutVars>>

(***************************************************************************)
(* Bounds of the model.                                                    *)
(***************************************************************************)
\* the most markup tokens an input of the markup parser is built from
MaxTok == 3
\* the most text tokens an input without < and > is built from
MaxText == 4

(***************************************************************************)
(* Characters and strings.                                                 *)
(***************************************************************************)
\* str.isspace() of one character
IsSpace(c) == c \in {" ", "\n", "\t"}

\* str.isspace() of a string: non-empty and every character whitespace
IsSpaceStr(t) == Len(t) > 0 /\ \A k \in 1..Len(t) : IsSpace(t[k])

\* str.casefold() / str.lower() of one character
LowerChar(c) ==
    CASE c = "A" -> "a"
      [] c = "B" -> "b"
      [] c = "D" -> "d"
      [] c = "H" -> "h"
      [] c = "R" -> "r"
      [] OTHER -> c

casefold(t) == [k \in 1..Len(t) |-> LowerChar(t[k])]

RECURSIVE Flatten(_)
Flatten(ts) == IF ts = <<>> THEN <<>> ELSE Head(ts) \o Flatten(Tail(ts))

startswith(t, c) == Len(t) > 0 /\ t[1] = c

RECURSIVE lstrip(_)
lstrip(t) == IF t # <<>> /\ IsSpace(Head(t)) THEN lstrip(Tail(t)) ELSE t

RECURSIVE rstrip(_)
rstrip(t) ==
    IF t # <<>> /\ IsSpace(t[Len(t)]) THEN rstrip(SubSeq(t, 1, Len(t) - 1)) ELSE t

\* str.strip()
strip(t) == rstrip(lstrip(t))

\* the first word of a string that starts with a non-whitespace character
FirstWord(t) ==
    SubSeq(t, 1, CHOOSE k \in 0..Len(t) :
                    /\ \A j \in 1..k : ~IsSpace(t[j])
                    /\ k = Len(t) \/ IsSpace(t[k + 1]))

\* str.split(): the maximal runs of non-whitespace characters
RECURSIVE split(_)
split(t) ==
    LET u == lstrip(t)
        w == FirstWord(u)
    IN  IF u = <<>> THEN <<>>
        ELSE <<w>> \o split(SubSeq(u, Len(w) + 1, Len(u)))

\* the index of the first c in t, 0 when there is none
RECURSIVE IndexOf(_, _, _)
IndexOf(t, c, k) ==
    IF k > Len(t) THEN 0 ELSE IF t[k] = c THEN k ELSE IndexOf(t, c, k + 1)

(***************************************************************************)
(* Constants of the markup parser.                                         *)
(***************************************************************************)
None == <<"None">>

html == <<"h", "t", "m", "l">>
head == <<"h", "e", "a", "d">>
bodyTag == <<"b", "o", "d", "y">>
closeHead == <<"/", "h", "e", "a", "d">>
closeHtml == <<"/", "h", "t", "m", "l">>

HEAD_TAGS == {
    <<"b", "a", "s", "e">>, <<"b", "a", "s", "e", "f", "o", "n", "t">>,
    <<"b", "g", "s", "o", "u", "n", "d">>, <<"n", "o", "s", "c", "r", "i", "p", "t">>,
    <<"l", "i", "n", "k">>, <<"m", "e", "t", "a">>, <<"t", "i", "t", "l", "e">>,
    <<"s", "t", "y", "l", "e">>, <<"s", "c", "r", "i", "p", "t">> }

SELF_CLOSING_TAGS == {
    <<"a", "r", "e", "a">>, <<"b", "a", "s", "e">>, <<"b", "r">>, <<"c", "o", "l">>,
    <<"e", "m", "b", "e", "d">>, <<"h", "r">>, <<"i", "m", "g">>,
    <<"i", "n", "p", "u", "t">>, <<"l", "i", "n", "k">>, <<"m", "e", "t", "a">>,
    <<"p", "a", "r", "a", "m">>, <<"s", "o", "u", "r", "c", "e">>,
    <<"t", "r", "a", "c", "k">>, <<"w", "b", "r">> }

\* the entity table: <<entity, replacement>>
ENTITIES == {
    << <<"&", "l", "t", ";">>, <<"<">> >>,
    << <<"&", "g", "t", ";">>, <<">">> >>,
    << <<"&", "a", "m", "p", ";">>, <<"&">> >>,
    << <<"&", "q", "u", "o", "t", ";">>, <<"\"">> >>,
    << <<"&", "a", "p", "o", "s", ";">>, <<"'">> >>,
    << <<"&", "n", "b", "s", "p", ";">>, <<" ">> >>,
    << <<"&", "c", "o", "p", "y", ";">>, <<"U+00C2", "U+00A9">> >>,
    << <<"&", "n", "d", "a", "s", "h", ";">>, <<"-">> >> }

EntityNames == { e[1] : e \in ENTITIES }

EntityValue(name) == (CHOOSE e \in ENTITIES : e[1] = name)[2]

(***************************************************************************)
(* The node store.  A node is named by its index in nodes; parent 0 is     *)
(* Python's None.                                                          *)
(***************************************************************************)
EmptyDict == [k \in {} |-> <<>>]

\* d[k] = v on a dict
DictSet(d, k, v) == [x \in (DOMAIN d) \cup {k} |-> IF x = k THEN v ELSE d[x]]

\* Text(text, parent)
Text(text, parent) ==
    [kind |-> "Text", tag |-> <<>>, attributes |-> EmptyDict, text |-> text,
     parent |-> parent, children |-> <<>>]

\* Element(tag, attributes, parent)
Element(tag, attributes, parent) ==
    [kind |-> "Element", tag |-> tag, attributes |-> attributes, text |-> <<>>,
     parent |-> parent, children |-> <<>>]

\* parent.children.insert(0, node): the node put in front of its siblings
AppendChild_Front(ns, parent, node) ==
    [ns EXCEPT ![parent].children = <<node>> \o @]

\* parent.children.append(node)
AppendChild(ns, parent, node) ==
    [ns EXCEPT ![parent].children = Append(@, node)]

Top(stack) == stack[Len(stack)]
Pop(stack) == SubSeq(stack, 1, Len(stack) - 1)

(***************************************************************************)
(* HTMLParser.  A parser state P is [unfinished, nodes, err]: the stack of *)
(* open elements, the node store, and whether an exception was raised.     *)
(***************************************************************************)
\* the loop of get_attributes over parts[1:]
RECURSIVE AttrLoop(_, _)
AttrLoop(parts, attributes) ==
    IF parts = <<>> THEN attributes
    ELSE LET attrpair == Head(parts)
             eq == IndexOf(attrpair, "=", 1)
             key == SubSeq(attrpair, 1, eq - 1)
             value == SubSeq(attrpair, eq + 1, Len(attrpair))
             unquoted == IF Len(value) > 2 /\ value[1] \in {"'", "\""}
                         THEN SubSeq(value, 2, Len(value) - 1)
                         ELSE value
         IN  AttrLoop(Tail(parts),
                      IF eq > 0
                      THEN DictSet(attributes, casefold(key), unquoted)
                      ELSE DictSet(attributes, casefold(attrpair), <<>>))

\* get_attributes: ok is FALSE when parts[0] raises IndexError
get_attributes(text) ==
    LET parts == split(text)
    IN  IF parts = <<>>
        THEN [ok |-> FALSE, tag |-> <<>>, attributes |-> EmptyDict]
        ELSE [ok |-> TRUE, tag |-> casefold(parts[1]),
              attributes |-> AttrLoop(Tail(parts), EmptyDict)]

\* the closing-tag branch of add_tag
CloseTag(P) ==
    IF Len(P.unfinished) = 1 THEN P
    ELSE IF P.unfinished = <<>> THEN [P EXCEPT !.err = TRUE]
    ELSE LET node == Top(P.unfinished)
             rest == Pop(P.unfinished)
             parent == IF rest # <<>> THEN Top(rest) ELSE 0
         IN  [P EXCEPT !.unfinished = rest,
                       !.nodes = IF parent # 0
                                 THEN AppendChild(P.nodes, parent, node)
                                 ELSE P.nodes]

\* the self-closing branch of add_tag
SelfClosingTag(P, tag, attributes) ==
    IF P.unfinished = <<>> THEN [P EXCEPT !.err = TRUE]
    ELSE LET parent == Top(P.unfinished)
             node == Len(P.nodes) + 1
         IN  [P EXCEPT !.nodes =
                  AppendChild(Append(P.nodes, Element(tag, attributes, parent)),
                              parent, node)]

\* the opening-tag branch with the root recorded as every element's parent
OpenTagParentRoot(P, tag, attributes) ==
    LET parent == IF P.unfinished # <<>> THEN P.unfinished[1] ELSE 0
        node == Len(P.nodes) + 1
    IN  [P EXCEPT !.nodes = Append(P.nodes, Element(tag, attributes, parent)),
                  !.unfinished = Append(P.unfinished, node)]

\* the opening-tag branch of add_tag
OpenTag(P, tag, attributes) ==
    LET parent == IF P.unfinished # <<>> THEN Top(P.unfinished) ELSE 0
        node == Len(P.nodes) + 1
    IN  [P EXCEPT !.nodes = Append(P.nodes, Element(tag, attributes, parent)),
                  !.unfinished = Append(P.unfinished, node)]

open_tags(P) == [k \in 1..Len(P.unfinished) |-> P.nodes[P.unfinished[k]].tag]

\* the repair loop without the branch that closes an open head
implicit_tag_KeepHead(tags, tag) ==
    IF tags = <<>> /\ tag # html THEN html
    ELSE IF tags = <<html>> /\ tag \notin {head, bodyTag, closeHtml}
    THEN IF tag # None /\ tag \in HEAD_TAGS THEN head ELSE bodyTag
    ELSE None

\* the repair loop that opens a head under html whatever tag comes
implicit_tag_HeadFirst(tags, tag) ==
    IF tags = <<>> /\ tag # html THEN html
    ELSE IF tags = <<html>> /\ tag \notin {head, bodyTag, closeHtml} THEN head
    ELSE IF tags = <<html, head>> /\ tag \notin ({closeHead} \cup HEAD_TAGS)
    THEN closeHead
    ELSE None

\* one iteration of the loop of implicit_tags, open_tags being tags: the
\* tag it adds, None when it breaks
implicit_tag(tags, tag) ==
    IF tags = <<>> /\ tag # html THEN html
    ELSE IF tags = <<html>> /\ tag \notin {head, bodyTag, closeHtml}
    THEN IF tag # None /\ tag \in HEAD_TAGS THEN head ELSE bodyTag
    ELSE IF tags = <<html, head>> /\ tag \notin ({closeHead} \cup HEAD_TAGS)
    THEN closeHead
    ELSE None

\* add_tag after implicit_tags: the three branches on the tag
add_tag_branch(Q, tag, attributes) ==
    IF Q.err THEN Q
    ELSE IF startswith(tag, "/") THEN CloseTag(Q)
    ELSE IF tag \in SELF_CLOSING_TAGS THEN SelfClosingTag(Q, tag, attributes)
    ELSE OpenTag(Q, tag, attributes)

RECURSIVE add_tag(_, _)
RECURSIVE add_tag_parsed(_, _)
RECURSIVE implicit_tags(_, _)
RECURSIVE implicit_tags_add(_, _, _)

\* implicit_tags: the loop
implicit_tags(P, tag) ==
    IF P.err THEN P ELSE implicit_tags_add(P, tag, implicit_tag(open_tags(P), tag))

\* the rest of an iteration of implicit_tags that is to add the tag missing
implicit_tags_add(P, tag, missing) ==
    IF missing = None THEN P ELSE implicit_tags(add_tag(P, missing), tag)

\* add_tag once get_attributes has returned ga
add_tag_parsed(P, ga) ==
    IF ~ga.ok THEN [P EXCEPT !.err = TRUE]
    ELSE IF startswith(ga.tag, "!") THEN P
    ELSE add_tag_branch(implicit_tags(P, ga.tag), ga.tag, ga.attributes)

add_tag(P, text) == add_tag_parsed(P, get_attributes(text))

\* add_text after implicit_tags: the new text node
add_text_node(Q, text) ==
    IF Q.err THEN Q
    ELSE IF Q.unfinished = <<>> THEN [Q EXCEPT !.err = TRUE]
    ELSE LET parent == Top(Q.unfinished)
             node == Len(Q.nodes) + 1
         IN  [Q EXCEPT !.nodes =
                  AppendChild(Append(Q.nodes, Text(text, parent)), parent, node)]

add_text(P, text) ==
    IF IsSpaceStr(text) THEN P ELSE add_text_node(implicit_tags(P, None), text)

\* the loop of finish dropping the open tags instead of appending them
FinishLoopDrop(P) ==
    IF Len(P.unfinished) > 1
    THEN [P EXCEPT !.unfinished = <<P.unfinished[1]>>]
    ELSE P

\* the loop of finish: close the remaining open tags
RECURSIVE FinishLoop(_)
FinishLoop(P) ==
    IF Len(P.unfinished) > 1
    THEN LET node == Top(P.unfinished)
             rest == Pop(P.unfinished)
         IN  FinishLoop([P EXCEPT !.unfinished = rest,
                                  !.nodes = AppendChild(P.nodes, Top(rest), node)])
    ELSE P

\* the last line of finish: pop and return the root
finish_pop(R) ==
    IF R.err \/ R.unfinished = <<>>
    THEN [state |-> [R EXCEPT !.err = TRUE], result |-> 0]
    ELSE [state |-> [R EXCEPT !.unfinished = Pop(R.unfinished)],
          result |-> Top(R.unfinished)]

\* finish after its first statement: close the open tags, pop the root
finish_close(Q) == finish_pop(IF Q.err THEN Q ELSE FinishLoop(Q))

\* finish: the parser state after the final pop, and the node returned
finish(P) ==
    finish_close(IF P.unfinished = <<>> THEN implicit_tags(P, None) ELSE P)

\* the text branch with every whitespace character kept as a space
AppendTextNoCollapse(buf, char) ==
    IF IsSpace(char) THEN Append(buf, " ") ELSE Append(buf, char)

\* the text branch of the scanning loop: buffer after one character
AppendText(buf, char) ==
    IF IsSpace(char)
    THEN IF buf # <<>> /\ buf[Len(buf)] # " " THEN Append(buf, " ") ELSE buf
    ELSE Append(buf, char)

\* the entity that starts at text[at], tried at lengths 4 to 7; <<>> when none
RECURSIVE MatchEntity(_, _, _)
MatchEntity(text, at, length) ==
    IF length > 7 THEN <<>>
    ELSE IF at + length <= Len(text)
            /\ SubSeq(text, at + 1, at + length) \in EntityNames
    THEN SubSeq(text, at + 1, at + length)
    ELSE MatchEntity(text, at, length + 1)

\* the tag name parse works out after add_tag, to decide on a line break
clean_tag(tag_content) ==
    LET first == IF tag_content # <<>> THEN split(tag_content)[1] ELSE <<>>
        name == IF startswith(first, "/") THEN Tail(first) ELSE first
    IN  casefold(name)

(***************************************************************************)
(* The inputs of the markup parser: the texts built from at most MaxTok    *)
(* markup tokens, and the texts built from at most MaxText text tokens,    *)
(* which hold neither < nor >.                                             *)
(***************************************************************************)
Tokens == {
    <<"<">>, <<">">>, <<"x">>, <<" ">>, <<"&">>,
    <<"<", "a", " ", "h", "=", "1", ">">>,
    <<"<", "B", ">">>,
    <<"<", "/", "a", ">">>,
    <<"<", "b", "r", ">">>,
    <<"<", "t", "i", "t", "l", "e", ">">>,
    <<"<", "m", "e", "t", "a", ">">>,
    <<"<", "h", "t", "m", "l", ">">>,
    <<"<", "h", "e", "a", "d", ">">>,
    <<"<", "/", "h", "e", "a", "d", ">">>,
    <<"<", "/", "h", "t", "m", "l", ">">>,
    <<"<", "!", "c", ">">> }

TagBodies == { Flatten(ts) : ts \in UNION { [1..n -> Tokens] : n \in 0..MaxTok } }

TextTokens == {
    <<"x">>, <<" ">>, <<"\n">>, <<"&">>, <<"l", "t", ";">>,
    <<"&", "a", "m", "p", ";">>, <<"&", "n", "b", "s", "p", ";">> }

TextBodies == { Flatten(ts) : ts \in UNION { [1..n -> TextTokens] : n \in 0..MaxText } }

(***************************************************************************)
(* HTMLParser.parse as a state machine: one action per branch of the       *)
(* scanning loop, and one for the code after the loop.  pc is "scan" in    *)
(* the loop, "done" once parse has returned root, "raised" once an         *)
(* exception has left parse.                                               *)
(***************************************************************************)
Parser == [unfinished |-> unfinished, nodes |-> nodes, err |-> FALSE]

\* style has not been called
StyleIdle ==
    /\ styles = <<>>
    /\ todo = <<>>
    /\ spc = "idle"

\* nothing runs after the parsers
\* no DocumentLayout has been made
\* self.url = None
NoURL == "None"

\* Tab.__init__: no page yet
LayoutIdle ==
    /\ lay = <<>>
    /\ document = 0
    /\ display_list = <<>>
    /\ passes = 0
    /\ history = <<>>
    /\ url = NoURL
    /\ scroll = 0

RestIdle == StyleIdle /\ LayoutIdle

CssIdle ==
    /\ sheet = <<>>
    /\ s = <<>>
    /\ si = 0
    /\ rules = <<>>
    /\ cpc = "idle"

InitParser ==
    /\ i = 0
    /\ buffer = <<>>
    /\ in_tag = FALSE
    /\ unfinished = <<>>
    /\ nodes = <<>>
    /\ root = 0
    /\ pc = "scan"

InitHTML ==
    /\ body \in TagBodies
    /\ InitParser
    /\ CssIdle
    /\ RestIdle

InitText ==
    /\ body \in TextBodies
    /\ InitParser
    /\ CssIdle
    /\ RestIdle

\* char == "<"
ScanLt ==
    /\ pc = "scan"
    /\ i < Len(body)
    /\ body[i + 1] = "<"
    /\ LET P == IF buffer # <<>> THEN add_text(Parser, buffer) ELSE Parser
       IN  /\ unfinished' = P.unfinished
           /\ nodes' = P.nodes
           /\ IF P.err
              THEN pc' = "raised" /\ UNCHANGED <<i, buffer, in_tag>>
              ELSE pc' = pc /\ buffer' = <<>> /\ in_tag' = TRUE /\ i' = i + 1
    /\ UNCHANGED <<body, root>>
    /\ UNCHANGED cssVars
    /\ UNCHANGED restVars

\* what parse adds after a tag: a line break after <br> and closing tags
tag_newline(P, tag_content) ==
    IF P.err THEN P
    ELSE IF clean_tag(tag_content) = <<"b", "r">> THEN add_text(P, <<"\n">>)
    ELSE IF startswith(tag_content, "/") THEN add_text(P, <<"\n">>)
    ELSE P

\* char == ">" and in_tag
ScanGt ==
    /\ pc = "scan"
    /\ i < Len(body)
    /\ body[i + 1] = ">"
    /\ in_tag
    /\ LET Q == tag_newline(add_tag(Parser, strip(buffer)), strip(buffer))
       IN  /\ unfinished' = Q.unfinished
           /\ nodes' = Q.nodes
           /\ IF Q.err
              THEN pc' = "raised" /\ UNCHANGED <<i, buffer, in_tag>>
              ELSE pc' = pc /\ buffer' = <<>> /\ in_tag' = FALSE /\ i' = i + 1
    /\ UNCHANGED <<body, root>>
    /\ UNCHANGED cssVars
    /\ UNCHANGED restVars

\* not in_tag and char == "&"
ScanEntity ==
    /\ pc = "scan"
    /\ i < Len(body)
    /\ body[i + 1] = "&"
    /\ ~in_tag
    /\ LET entity == MatchEntity(body, i, 4)
       IN  IF entity # <<>>
           THEN buffer' = buffer \o EntityValue(entity) /\ i' = i + Len(entity)
           ELSE buffer' = Append(buffer, "&") /\ i' = i + 1
    /\ UNCHANGED <<body, in_tag, unfinished, nodes, root, pc>>
    /\ UNCHANGED cssVars
    /\ UNCHANGED restVars

\* not in_tag: text outside a tag, whitespace runs collapsed
ScanText ==
    /\ pc = "scan"
    /\ i < Len(body)
    /\ body[i + 1] \notin {"<", "&"}
    /\ ~in_tag
    /\ buffer' = AppendText(buffer, body[i + 1])
    /\ i' = i + 1
    /\ UNCHANGED <<body, in_tag, unfinished, nodes, root, pc>>
    /\ UNCHANGED cssVars
    /\ UNCHANGED restVars

\* inside a tag: accumulate the tag content
ScanTagChar ==
    /\ pc = "scan"
    /\ i < Len(body)
    /\ body[i + 1] \notin {"<", ">"}
    /\ in_tag
    /\ buffer' = Append(buffer, body[i + 1])
    /\ i' = i + 1
    /\ UNCHANGED <<body, in_tag, unfinished, nodes, root, pc>>
    /\ UNCHANGED cssVars
    /\ UNCHANGED restVars

\* return self.finish(), unless add_text has raised
finish_unless(P) == IF P.err THEN [state |-> P, result |-> 0] ELSE finish(P)

\* after the loop: flush the remaining text and return self.finish()
Finish ==
    /\ pc = "scan"
    /\ i >= Len(body)
    /\ LET F == finish_unless(IF ~in_tag /\ buffer # <<>>
                              THEN add_text(Parser, buffer) ELSE Parser)
       IN  /\ unfinished' = F.state.unfinished
           /\ nodes' = F.state.nodes
           /\ root' = F.result
           /\ pc' = IF F.state.err THEN "raised" ELSE "done"
    /\ UNCHANGED <<body, i, buffer, in_tag>>
    /\ UNCHANGED cssVars
    /\ UNCHANGED restVars

NextHTML == ScanLt \/ ScanGt \/ ScanEntity \/ ScanText \/ ScanTagChar \/ Finish

NextText == ScanEntity \/ ScanText \/ Finish

\* the markup parser on inputs built from markup tokens
SpecHTML == InitHTML /\ [][NextHTML]_vars

\* the markup parser on inputs that hold neither < nor >
SpecText == InitText /\ [][NextText]_vars

\* markup, text and entities together: the tokens of inputs in which text
\* or a closing tag arrives while only html, or html and head, are open
ParseTokens == {
    <<"<">>, <<">">>, <<"x">>, <<"&">>, <<"&", "l", "t", ";">>,
    <<"<", "B", ">">>,
    <<"<", "/", "a", ">">>,
    <<"<", "t", "i", "t", "l", "e", ">">>,
    <<"<", "h", "t", "m", "l", ">">>,
    <<"<", "h", "e", "a", "d", ">">>,
    <<"<", "/", "h", "e", "a", "d", ">">> }

ParseBodies == { Flatten(ts) : ts \in UNION { [1..n -> ParseTokens] : n \in 0..MaxTok } }

InitParse ==
    /\ body \in ParseBodies
    /\ InitParser
    /\ CssIdle
    /\ RestIdle

\* the markup parser on inputs that mix markup, text and entities
SpecParse == InitParse /\ [][NextHTML]_vars

(***************************************************************************)
(* CSSParser.  The text t and the position at (self.s and self.i) are      *)
(* passed to each method; a method that can raise returns ok, and the      *)
(* position it had reached: self.i keeps what the method consumed before   *)
(* it raised.                                                              *)
(***************************************************************************)
\* str.isalnum() of one character
IsAlnum(c) ==
    c \in {"a", "b", "c", "d", "e", "f", "g", "h", "i", "j", "k", "l", "m",
           "n", "o", "p", "q", "r", "s", "t", "u", "v", "w", "x", "y", "z",
           "0", "1", "2", "3", "4", "5", "6", "7", "8", "9",
           "A", "B", "D", "H", "R"}

IsWordChar(c) == IsAlnum(c) \/ c \in {"#", "-", ".", "%"}

\* TagSelector(tag)
TagSelector(tag) == [kind |-> "tag", tag |-> tag, priority |-> 1]

\* DescendantSelector(ancestor, descendant)
DescendantSelector(ancestor, descendant) ==
    [kind |-> "descendant", ancestor |-> ancestor, descendant |-> descendant,
     priority |-> ancestor.priority + descendant.priority]

\* whitespace: the position after the whitespace at at
RECURSIVE whitespace(_, _)
whitespace(t, at) ==
    IF at < Len(t) /\ IsSpace(t[at + 1]) THEN whitespace(t, at + 1) ELSE at

\* the position after the word characters at at
RECURSIVE WordEnd(_, _)
WordEnd(t, at) ==
    IF at < Len(t) /\ IsWordChar(t[at + 1]) THEN WordEnd(t, at + 1) ELSE at

\* word: raises when no word character stands at at
word(t, at) ==
    LET end == WordEnd(t, at)
    IN  [ok |-> end > at, at |-> end, val |-> SubSeq(t, at + 1, end)]

\* literal: raises unless the character at at is c
literal(t, at, c) ==
    IF at < Len(t) /\ t[at + 1] = c
    THEN [ok |-> TRUE, at |-> at + 1]
    ELSE [ok |-> FALSE, at |-> at]

\* what ignore_until returns at the end of the text (Python's None)
NoChar == "None"

\* ignore_until stopping one character late
ignore_until_Late(t, at, chars) ==
    LET hits == { k \in at..(Len(t) - 1) : t[k + 1] \in chars }
    IN  IF hits = {} THEN [at |-> Len(t), why |-> NoChar]
        ELSE LET k == CHOOSE h \in hits : \A g \in hits : h <= g
             IN  [at |-> k + 1, why |-> t[k + 1]]

\* ignore_until: the position of the first of chars from at on, and that
\* character; the end of the text and None when there is none
RECURSIVE ignore_until(_, _, _)
ignore_until(t, at, chars) ==
    IF at < Len(t)
    THEN IF t[at + 1] \in chars THEN [at |-> at, why |-> t[at + 1]]
         ELSE ignore_until(t, at + 1, chars)
    ELSE [at |-> at, why |-> NoChar]

\* pair: prop : val
pair(t, at) ==
    LET p == word(t, at)
        c == literal(t, whitespace(t, p.at), ":")
        v == word(t, whitespace(t, c.at))
    IN  IF ~p.ok THEN [ok |-> FALSE, at |-> p.at, prop |-> <<>>, val |-> <<>>]
        ELSE IF ~c.ok THEN [ok |-> FALSE, at |-> c.at, prop |-> <<>>, val |-> <<>>]
        ELSE [ok |-> v.ok, at |-> v.at, prop |-> casefold(p.val), val |-> v.val]

RECURSIVE cssBody(_, _, _)
RECURSIVE body_pair(_, _, _)
RECURSIVE body_semicolon(_, _, _)
RECURSIVE body_except(_, _, _)

\* the try block of body recording the pair only once its ";" is read
body_pair_AfterSemicolon(t, pairs, p) ==
    IF ~p.ok THEN body_except(t, pairs, ignore_until(t, p.at, {";", "}"}))
    ELSE LET semi == literal(t, whitespace(t, p.at), ";")
         IN  IF semi.ok
             THEN cssBody(t, whitespace(t, semi.at), DictSet(pairs, p.prop, p.val))
             ELSE body_except(t, pairs, ignore_until(t, semi.at, {";", "}"}))

\* body: the loop over the declarations up to "}" or the end of the text
cssBody(t, at, pairs) ==
    IF at < Len(t) /\ t[at + 1] # "}"
    THEN body_pair(t, pairs, pair(t, at))
    ELSE [ok |-> TRUE, at |-> at, pairs |-> pairs]

\* the try block of body once pair has returned or raised p: the pair is
\* recorded before its ";" is looked for
body_pair(t, pairs, p) ==
    IF p.ok
    THEN body_semicolon(t, DictSet(pairs, p.prop, p.val),
                        literal(t, whitespace(t, p.at), ";"))
    ELSE body_except(t, pairs, ignore_until(t, p.at, {";", "}"}))

\* the try block of body once literal(";") has returned or raised semi
body_semicolon(t, pairs, semi) ==
    IF semi.ok THEN cssBody(t, whitespace(t, semi.at), pairs)
    ELSE body_except(t, pairs, ignore_until(t, semi.at, {";", "}"}))

\* the except block of body once ignore_until has returned skip
body_except(t, pairs, skip) ==
    IF skip.why = ";"
    THEN LET resync == literal(t, skip.at, ";")
         IN  IF resync.ok THEN cssBody(t, whitespace(t, resync.at), pairs)
             ELSE [ok |-> FALSE, at |-> resync.at, pairs |-> pairs]
    ELSE [ok |-> TRUE, at |-> skip.at, pairs |-> pairs]

\* the loop of selector over the descendant tags
RECURSIVE SelectorLoop(_, _, _)
SelectorLoop(t, at, out) ==
    IF at < Len(t) /\ t[at + 1] # "{"
    THEN LET w == word(t, at)
         IN  IF ~w.ok THEN [ok |-> FALSE, at |-> w.at, out |-> out]
             ELSE SelectorLoop(t, whitespace(t, w.at),
                               DescendantSelector(out, TagSelector(casefold(w.val))))
    ELSE [ok |-> TRUE, at |-> at, out |-> out]

\* selector
selector(t, at) ==
    LET w == word(t, at)
    IN  IF ~w.ok THEN [ok |-> FALSE, at |-> w.at, out |-> <<>>]
        ELSE SelectorLoop(t, whitespace(t, w.at), TagSelector(casefold(w.val)))

\* what the try block of parse yields when it raises at at
Raised(at) == [ok |-> FALSE, at |-> at, rule |-> <<>>]

\* the try block of parse once literal("}") has returned or raised close
rule_append(out, pairs, close) ==
    IF close.ok THEN [ok |-> TRUE, at |-> close.at, rule |-> <<out, pairs>>]
    ELSE Raised(close.at)

\* the try block of parse once body has returned or raised b
rule_close(t, out, b) ==
    IF b.ok THEN rule_append(out, b.pairs, literal(t, b.at, "}")) ELSE Raised(b.at)

\* the try block of parse once literal("{") has returned or raised open
rule_body(t, out, open) ==
    IF open.ok THEN rule_close(t, out, cssBody(t, whitespace(t, open.at), EmptyDict))
    ELSE Raised(open.at)

\* the try block of parse once selector has returned or raised sel
rule_open(t, sel) ==
    IF sel.ok THEN rule_body(t, sel.out, literal(t, sel.at, "{")) ELSE Raised(sel.at)

\* the try block of parse: one rule
TryRule(t, at) == rule_open(t, selector(t, whitespace(t, at)))

(***************************************************************************)
(* The inputs of the stylesheet parser.  A declaration token is            *)
(* [text, adds, wf]: adds is the <<property, value>> it declares up to its  *)
(* value (<<>> when that part is malformed), wf whether it is well-formed: *)
(* "word : word ;", or "word : word" for the last one of a body.           *)
(***************************************************************************)
\* the most tokens of a free-form stylesheet
MaxCss == 5
\* the most declarations, each ended by ";", of the body of a rule
MaxDecl == 3
\* the most rules of a stylesheet built from rule tokens
MaxRules == 4

CssTokens == {
    <<"p">>, <<" ">>, <<"{">>, <<"}">>, <<":">>, <<";">>, <<"c", ":", "R">> }

CssTexts == { Flatten(ts) : ts \in UNION { [1..n -> CssTokens] : n \in 0..MaxCss } }

DeclTokens == {
    [text |-> <<"c", ":", "r", ";">>, adds |-> << <<"c">>, <<"r">> >>, wf |-> TRUE],
    [text |-> <<"D", " ", ":", " ", "b", " ", ";", " ">>,
     adds |-> << <<"d">>, <<"b">> >>, wf |-> TRUE],
    [text |-> <<"c", " ", "r", ";">>, adds |-> <<>>, wf |-> FALSE],
    [text |-> <<"c", ":", ";">>, adds |-> <<>>, wf |-> FALSE],
    [text |-> <<":", "r", ";">>, adds |-> <<>>, wf |-> FALSE],
    [text |-> <<"c", ":", "g", " ", "!", "i", ";">>,
     adds |-> << <<"c">>, <<"g">> >>, wf |-> FALSE] }

\* a last declaration with no ";" before the "}"
LastTokens == {
    [text |-> <<>>, adds |-> <<>>, wf |-> TRUE],
    [text |-> <<"d", ":", "e">>, adds |-> << <<"d">>, <<"e">> >>, wf |-> TRUE] }

\* what precedes the rule: nothing, or a stray "}"
PrefixTexts == { <<>>, <<"}">> }

BodySheets ==
    { [prefix |-> pre, decls |-> ds, last |-> l] :
        pre \in PrefixTexts,
        ds \in UNION { [1..n -> DeclTokens] : n \in 0..MaxDecl },
        l \in LastTokens }

BodySheetText(sh) ==
    sh.prefix \o <<"p", "{">>
        \o Flatten([k \in 1..Len(sh.decls) |-> sh.decls[k].text])
        \o sh.last.text \o <<"}">>

ruleC == << TagSelector(<<"p">>), DictSet(EmptyDict, <<"c">>, <<"r">>) >>
ruleD ==
    << DescendantSelector(TagSelector(<<"a">>), TagSelector(<<"b">>)),
       DictSet(EmptyDict, <<"d">>, <<"b">>) >>
ruleCE ==
    << TagSelector(<<"p">>),
       DictSet(DictSet(EmptyDict, <<"c">>, <<"r">>), <<"d">>, <<"e">>) >>

\* kind "good": a well-formed rule, rule what it declares; "selector": a
\* rule with a bad selector, which ends with its "}"; "unterminated": a
\* rule whose body has no "}", rule its selector and the declarations of
\* its body.  absorbs is what the token declares when it is read inside a
\* body left open before it: the word : word parts that follow its
\* first ";".
RuleTokens == {
    [text |-> <<"p", "{", "c", ":", "r", ";", "}">>,
     kind |-> "good", rule |-> ruleC, absorbs |-> <<>>],
    [text |-> <<"a", " ", "B", " ", "{", "d", ":", "b", ";", "}", " ">>,
     kind |-> "good", rule |-> ruleD, absorbs |-> <<>>],
    [text |-> <<"p", "{", "c", ":", "r", ";", "d", ":", "e", ";", "}">>,
     kind |-> "good", rule |-> ruleCE, absorbs |-> << <<"d">>, <<"e">> >>],
    [text |-> <<"p", ",", "b", "{", "c", ":", "r", ";", "}">>,
     kind |-> "selector", rule |-> <<>>, absorbs |-> <<>>],
    [text |-> <<"{", "c", ":", "r", ";", "}">>,
     kind |-> "selector", rule |-> <<>>, absorbs |-> <<>>],
    [text |-> <<"}">>, kind |-> "selector", rule |-> <<>>, absorbs |-> <<>>],
    [text |-> <<"p", "{", "c", ":", "r", ";">>,
     kind |-> "unterminated", rule |-> ruleC, absorbs |-> <<>>] }

RuleSheets == UNION { [1..n -> RuleTokens] : n \in 0..MaxRules }

RuleSheetText(sh) == Flatten([k \in 1..Len(sh) |-> sh[k].text])

(***************************************************************************)
(* CSSParser.parse as a state machine: one action per iteration of its     *)
(* loop, by the way the iteration ends, and one for the return after the   *)
(* loop.  cpc is "parse" in the loop, "done" once parse has returned       *)
(* rules, "raised" once an exception has left parse.                       *)
(***************************************************************************)
HtmlIdle ==
    /\ body = <<>>
    /\ i = 0
    /\ buffer = <<>>
    /\ in_tag = FALSE
    /\ unfinished = <<>>
    /\ nodes = <<>>
    /\ root = 0
    /\ pc = "idle"

InitCssParser ==
    /\ si = 0
    /\ rules = <<>>
    /\ cpc = "parse"

InitCSS ==
    /\ s \in CssTexts
    /\ sheet = <<>>
    /\ InitCssParser
    /\ HtmlIdle
    /\ RestIdle

InitCSSBody ==
    /\ sheet \in BodySheets
    /\ s = BodySheetText(sheet)
    /\ InitCssParser
    /\ HtmlIdle
    /\ RestIdle

InitCSSRules ==
    /\ sheet \in RuleSheets
    /\ s = RuleSheetText(sheet)
    /\ InitCssParser
    /\ HtmlIdle
    /\ RestIdle

\* an except block that leaves the loop whatever ignore_until found
Recover_Break(t, at) == [at |-> ignore_until(t, at, {"}"}).at, next |-> "done"]

\* the except block of parse: where parsing resumes, and whether the loop
\* goes on ("parse"), is left by break ("done"), or literal raises
Recover(t, at) ==
    LET skip == ignore_until(t, at, {"}"})
        close == literal(t, skip.at, "}")
    IN  IF skip.why = "}"
        THEN IF close.ok
             THEN [at |-> whitespace(t, close.at), next |-> "parse"]
             ELSE [at |-> close.at, next |-> "raised"]
        ELSE [at |-> skip.at, next |-> "done"]

\* an iteration whose try block parses a rule
CssRule ==
    /\ cpc = "parse"
    /\ si < Len(s)
    /\ TryRule(s, si).ok
    /\ rules' = Append(rules, TryRule(s, si).rule)
    /\ si' = TryRule(s, si).at
    /\ UNCHANGED <<sheet, s, cpc>>
    /\ UNCHANGED htmlVars
    /\ UNCHANGED restVars

\* an iteration whose try block raises
CssRecover ==
    /\ cpc = "parse"
    /\ si < Len(s)
    /\ ~TryRule(s, si).ok
    /\ si' = Recover(s, TryRule(s, si).at).at
    /\ cpc' = Recover(s, TryRule(s, si).at).next
    /\ UNCHANGED <<sheet, s, rules>>
    /\ UNCHANGED htmlVars
    /\ UNCHANGED restVars

\* the loop condition fails: return rules
CssReturn ==
    /\ cpc = "parse"
    /\ si >= Len(s)
    /\ cpc' = "done"
    /\ UNCHANGED <<sheet, s, si, rules>>
    /\ UNCHANGED htmlVars
    /\ UNCHANGED restVars

NextCSS == CssRule \/ CssRecover \/ CssReturn

\* the stylesheet parser on free-form texts
SpecCSS == InitCSS /\ [][NextCSS]_vars

\* the stylesheet parser on one rule with a body of declaration tokens
SpecCSSBody == InitCSSBody /\ [][NextCSS]_vars

\* the stylesheet parser on sequences of rule tokens
SpecCSSRules == InitCSSRules /\ [][NextCSS]_vars

(***************************************************************************)
(* The cascade: cascade_priority, the selectors' matches, and style.  A    *)
(* float is modelled by its number of hundredths, which is exact for the    *)
(* sizes and percentages of the model; float() is modelled on the strings   *)
(* digits and digits.digits, the only ones the model's sheets produce.      *)
(***************************************************************************)
color == <<"c", "o", "l", "o", "r">>
fontSize == <<"f", "o", "n", "t", "-", "s", "i", "z", "e">>
fontStyle == <<"f", "o", "n", "t", "-", "s", "t", "y", "l", "e">>
fontWeight == <<"f", "o", "n", "t", "-", "w", "e", "i", "g", "h", "t">>
normal == <<"n", "o", "r", "m", "a", "l">>
black == <<"b", "l", "a", "c", "k">>

\* <<property, default value>>
INHERITED_PROPERTIES == {
    <<fontSize, <<"1", "6", "p", "x">> >>,
    <<fontStyle, normal>>,
    <<fontWeight, normal>>,
    <<color, black>> }

InheritedNames == { e[1] : e \in INHERITED_PROPERTIES }

DefaultValue(property) == (CHOOSE e \in INHERITED_PROPERTIES : e[1] = property)[2]

cascade_priority(rule) == rule[1].priority

\* sorted(rules, key=cascade_priority), one insertion: rule goes after the
\* rules of the same or a lower priority
RECURSIVE InsertByPriority(_, _)
InsertByPriority(sortedRules, rule) ==
    IF sortedRules # <<>>
       /\ cascade_priority(sortedRules[Len(sortedRules)]) > cascade_priority(rule)
    THEN Append(InsertByPriority(Pop(sortedRules), rule), Top(sortedRules))
    ELSE Append(sortedRules, rule)

\* the rules left in the order of the sheet
sorted_SheetOrder(rs) == rs

\* sorted(rules, key=cascade_priority): a stable sort
RECURSIVE sorted(_)
sorted(rs) ==
    IF rs = <<>> THEN <<>> ELSE InsertByPriority(sorted(Pop(rs)), Top(rs))

RECURSIVE matches(_, _, _)
RECURSIVE AncestorMatches(_, _, _)

\* a descendant selector that looks at the parent only
AncestorMatches_ParentOnly(ns, sel, n) ==
    ns[n].parent # 0 /\ matches(ns, sel, ns[n].parent)

\* the loop of DescendantSelector.matches: the walk up the parent chain
AncestorMatches(ns, sel, n) ==
    IF ns[n].parent = 0 THEN FALSE
    ELSE IF matches(ns, sel, ns[n].parent) THEN TRUE
    ELSE AncestorMatches(ns, sel, ns[n].parent)

\* TagSelector.matches and DescendantSelector.matches, on node n of ns
matches(ns, sel, n) ==
    IF sel.kind = "tag"
    THEN ns[n].kind = "Element" /\ sel.tag = ns[n].tag
    ELSE IF ~matches(ns, sel.descendant, n) THEN FALSE
    ELSE AncestorMatches(ns, sel.ancestor, n)

DigitValue(c) ==
    CASE c = "0" -> 0 [] c = "1" -> 1 [] c = "2" -> 2 [] c = "3" -> 3
      [] c = "4" -> 4 [] c = "5" -> 5 [] c = "6" -> 6 [] c = "7" -> 7
      [] c = "8" -> 8 [] c = "9" -> 9

DigitChar(d) == <<"0", "1", "2", "3", "4", "5", "6", "7", "8", "9">>[d + 1]

IsDigits(t) == t # <<>> /\ \A k \in 1..Len(t) : t[k] \in {DigitChar(d) : d \in 0..9}

\* the number a string of digits denotes
RECURSIVE DigitsValue(_)
DigitsValue(t) ==
    IF t = <<>> THEN 0 ELSE 10 * DigitsValue(Pop(t)) + DigitValue(Top(t))

\* the digits of a natural number
RECURSIVE NatDigits(_)
NatDigits(n) ==
    IF n < 10 THEN <<DigitChar(n)>> ELSE Append(NatDigits(n \div 10), DigitChar(n % 10))

\* float(t), in hundredths; ok is FALSE when float raises ValueError
float(t) ==
    LET dot == IndexOf(t, ".", 1)
    IN  IF dot = 0
        THEN IF IsDigits(t) THEN [ok |-> TRUE, h |-> 100 * DigitsValue(t)]
             ELSE [ok |-> FALSE, h |-> 0]
        ELSE IF IsDigits(SubSeq(t, 1, dot - 1)) /\ Len(t) - dot \in {1, 2}
                /\ IsDigits(SubSeq(t, dot + 1, Len(t)))
        THEN [ok |-> TRUE,
              h |-> 100 * DigitsValue(SubSeq(t, 1, dot - 1))
                    + (IF Len(t) - dot = 1 THEN 10 ELSE 1)
                      * DigitsValue(SubSeq(t, dot + 1, Len(t)))]
        ELSE [ok |-> FALSE, h |-> 0]

\* str() of a float of h hundredths: 16.0, 0.5, 0.25
FloatStr(h) ==
    NatDigits(h \div 100) \o <<".">>
        \o (IF h % 10 = 0 THEN <<DigitChar((h % 100) \div 10)>>
            ELSE <<DigitChar((h % 100) \div 10), DigitChar(h % 10)>>)

endswith(t, c) == t # <<>> /\ t[Len(t)] = c

\* every node given the defaults of the root
Inherit_Defaults(ns, sty, n) == [property \in InheritedNames |-> DefaultValue(property)]

\* the loop of style over INHERITED_PROPERTIES, for node n of ns
Inherit(ns, sty, n) ==
    [property \in InheritedNames |->
        IF ns[n].parent # 0 THEN sty[ns[n].parent][property]
        ELSE DefaultValue(property)]

\* the loop of style over rules: the bodies of the matching rules, in order
RECURSIVE ApplyRules(_, _, _, _)
ApplyRules(ns, st, n, rs) ==
    IF rs = <<>> THEN st
    ELSE ApplyRules(ns,
                    IF matches(ns, Head(rs)[1], n) THEN Head(rs)[2] @@ st ELSE st,
                    n, Tail(rs))

\* a percentage resolved against the default of the root, whatever the parent
ParentSize_Root(ns, sty, n) == DefaultValue(fontSize)

\* the font size style resolves a percentage against
ParentSize(ns, sty, n) ==
    IF ns[n].parent # 0 THEN sty[ns[n].parent][fontSize] ELSE DefaultValue(fontSize)

\* f"{pct * parent_size}px" once the two float() calls have returned
ResolvedSize(st, pct, parent_size) ==
    IF pct.ok /\ parent_size.ok
    THEN [ok |-> TRUE,
          style |-> [st EXCEPT ![fontSize] =
                        FloatStr((pct.h * parent_size.h) \div 10000) \o <<"p", "x">>]]
    ELSE [ok |-> FALSE, style |-> st]

\* the resolution of a font-size percentage; ok is FALSE when float raises
ResolvePercent(st, parentSize) ==
    IF fontSize \in DOMAIN st /\ endswith(st[fontSize], "%")
    THEN ResolvedSize(st, float(Pop(st[fontSize])), float(Pop(Pop(parentSize))))
    ELSE [ok |-> TRUE, style |-> st]

\* style(node, rules) up to the recursion into the children
style_node(ns, sty, rs, n) ==
    ResolvePercent(ApplyRules(ns, Inherit(ns, sty, n), n, rs), ParentSize(ns, sty, n))

(***************************************************************************)
(* The inputs of the cascade: the trees of at most MaxNodes nodes under an *)
(* html root, numbered in document order, and the rule lists of at most    *)
(* MaxSheet rules.                                                         *)
(***************************************************************************)
\* the most nodes of a tree, the root included
MaxNodes == 4
\* the most rules of a sheet
MaxSheet == 2

divTag == <<"d", "i", "v">>
pTag == <<"p">>
red == <<"r", "e", "d">>
blue == <<"b", "l", "u", "e">>
green == <<"g", "r", "e", "e", "n">>
gray == <<"g", "r", "a", "y">>

\* what a node other than the root is: an element of a tag, or a text
Labels == {divTag, pTag, <<"#text">>}

\* whether a is k or an ancestor of k under the parent vector par
RECURSIVE OnPath(_, _, _)
OnPath(par, a, k) ==
    IF a = k THEN TRUE ELSE IF k = 1 THEN FALSE ELSE OnPath(par, a, par[k])

\* the members of a set of numbers, ascending
RECURSIVE Ascending(_)
Ascending(S) ==
    IF S = {} THEN <<>>
    ELSE LET m == CHOOSE x \in S : \A y \in S : x <= y
         IN  <<m>> \o Ascending(S \ {m})

\* the node store of the tree with parent vector par and labels lab
TreeOf(n, par, lab) ==
    [k \in 1..n |->
        [kind |-> IF k > 1 /\ lab[k] = <<"#text">> THEN "Text" ELSE "Element",
         tag |-> IF k = 1 THEN html ELSE IF lab[k] = <<"#text">> THEN <<>> ELSE lab[k],
         attributes |-> EmptyDict,
         text |-> IF k > 1 /\ lab[k] = <<"#text">> THEN <<"x">> ELSE <<>>,
         parent |-> IF k = 1 THEN 0 ELSE par[k],
         children |-> Ascending({j \in 2..n : par[j] = k})]]

\* the trees a parse can return, up to the tags: the nodes are numbered in
\* document order and a text has no child
Trees ==
    UNION { { TreeOf(n, par, lab) :
                par \in { f \in [2..n -> 1..n] :
                            \A k \in 2..n : f[k] < k /\ OnPath(f, f[k], k - 1) },
                lab \in [2..n -> Labels] } : n \in 1..MaxNodes }

StyleTrees == { tr \in Trees : \A k \in 1..Len(tr) : tr[k].parent = 0
                                  \/ tr[tr[k].parent].kind = "Element" }

\* the selector CSSParser.selector builds from a text
SelectorOf(t) == selector(t, 0).out

CascadeRuleSet == {
    <<SelectorOf(<<"p">>), DictSet(EmptyDict, color, red)>>,
    <<SelectorOf(<<"p", " ">>), DictSet(EmptyDict, color, green)>>,
    <<SelectorOf(<<"d", "i", "v", " ", "p">>), DictSet(EmptyDict, color, blue)>>,
    <<SelectorOf(<<"d", "i", "v", " ", "d", "i", "v", " ", "p">>),
      DictSet(EmptyDict, color, gray)>> }

CascadeSheets == UNION { [1..n -> CascadeRuleSet] : n \in 0..MaxSheet }

(***************************************************************************)
(* Tab.load from the sort of the rules on, and style, as a state machine:  *)
(* one action for the sort and the first call of style, one for each call  *)
(* of style on a node, one for the return.  todo is the stack of the nodes  *)
(* still to style, styles[n] the style attribute of node n, sheet the      *)
(* rules in the order of the sheet.  spc is "load" before the sort,        *)
(* "style" in style, "done" after it, "raised" once float has raised.      *)
(***************************************************************************)
ParsersDone ==
    /\ body = <<>>
    /\ i = 0
    /\ buffer = <<>>
    /\ in_tag = FALSE
    /\ unfinished = <<>>
    /\ pc = "done"
    /\ s = <<>>
    /\ si = 0
    /\ cpc = "done"

InitStyle ==
    /\ nodes \in StyleTrees
    /\ root = 1
    /\ sheet = rules
    /\ styles = EmptyDict
    /\ todo = <<>>
    /\ spc = "load"
    /\ ParsersDone
    /\ LayoutIdle

InitCascade ==
    /\ rules \in CascadeSheets
    /\ InitStyle

\* style(self.tree, sorted(rules, key=cascade_priority)): the sort
SortRules ==
    /\ spc = "load"
    /\ rules' = sorted(rules)
    /\ todo' = <<root>>
    /\ spc' = "style"
    /\ UNCHANGED <<styles, sheet, s, si, cpc>>
    /\ UNCHANGED htmlVars
    /\ UNCHANGED layoutVars

\* the end of a call of style on node n that has computed r
StyleStep(n, r) ==
    /\ styles' = DictSet(styles, n, r.style)
    /\ todo' = IF r.ok THEN nodes[n].children \o Tail(todo) ELSE todo
    /\ spc' = IF r.ok THEN "style" ELSE "raised"

\* one call of style, up to its recursion into the children
StyleNode ==
    /\ spc = "style"
    /\ todo # <<>>
    /\ StyleStep(Head(todo), style_node(nodes, styles, rules, Head(todo)))
    /\ UNCHANGED cssVars
    /\ UNCHANGED htmlVars
    /\ UNCHANGED layoutVars

\* the first call of style returns
StyleReturn ==
    /\ spc = "style"
    /\ todo = <<>>
    /\ spc' = "done"
    /\ UNCHANGED <<styles, todo>>
    /\ UNCHANGED cssVars
    /\ UNCHANGED htmlVars
    /\ UNCHANGED layoutVars

NextStyle == SortRules \/ StyleNode \/ StyleReturn

\* the cascade on sheets that set color
SpecCascade == InitCascade /\ [][NextStyle]_vars

italic == <<"i", "t", "a", "l", "i", "c">>
width == <<"w", "i", "d", "t", "h">>
large == <<"l", "a", "r", "g", "e">>
px10 == <<"1", "0", "p", "x">>
px32 == <<"3", "2", "p", "x">>
pct50 == <<"5", "0", "%">>
pct200 == <<"2", "0", "0", "%">>

InheritRuleSet == {
    <<SelectorOf(<<"d", "i", "v">>), DictSet(EmptyDict, fontSize, px32)>>,
    <<SelectorOf(<<"p">>), DictSet(EmptyDict, fontSize, pct50)>>,
    <<SelectorOf(<<"h", "t", "m", "l">>), DictSet(EmptyDict, fontSize, pct200)>>,
    <<SelectorOf(<<"p">>), DictSet(DictSet(EmptyDict, fontStyle, italic), width, px10)>>,
    <<SelectorOf(<<"d", "i", "v">>), DictSet(EmptyDict, fontSize, large)>> }

InheritSheets == UNION { [1..n -> InheritRuleSet] : n \in 0..MaxSheet }

InitInherit ==
    /\ rules \in InheritSheets
    /\ InitStyle

\* the cascade on sheets that set font-size, font-style and width
SpecInherit == InitInherit /\ [][NextStyle]_vars

(***************************************************************************)
(* The layout tree.  lay is the store of the layout objects, an object     *)
(* being named by its place in it and 0 standing for None; document is     *)
(* Tab.document, 0 before the first load; display_list is                  *)
(* Tab.display_list; passes counts the calls of DocumentLayout.layout.     *)
(* The fields of an object are those the four classes assign; the fields   *)
(* cursor_y, line and display_list of a BlockLayout, which only flush      *)
(* reads, are left out.  The canvas of tkinter is outside the model.       *)
(***************************************************************************)
WIDTH == 1280
HSTEP == 13
VSTEP == 18

BLOCK_ELEMENTS == {
    <<"h", "t", "m", "l">>,
    <<"b", "o", "d", "y">>,
    <<"a", "r", "t", "i", "c", "l", "e">>,
    <<"s", "e", "c", "t", "i", "o", "n">>,
    <<"n", "a", "v">>,
    <<"a", "s", "i", "d", "e">>,
    <<"h", "1">>,
    <<"h", "2">>,
    <<"h", "3">>,
    <<"h", "4">>,
    <<"h", "5">>,
    <<"h", "6">>,
    <<"h", "g", "r", "o", "u", "p">>,
    <<"h", "e", "a", "d", "e", "r">>,
    <<"f", "o", "o", "t", "e", "r">>,
    <<"a", "d", "d", "r", "e", "s", "s">>,
    <<"p">>,
    <<"h", "r">>,
    <<"p", "r", "e">>,
    <<"b", "l", "o", "c", "k", "q", "u", "o", "t", "e">>,
    <<"o", "l">>,
    <<"u", "l">>,
    <<"m", "e", "n", "u">>,
    <<"l", "i">>,
    <<"d", "l">>,
    <<"d", "t">>,
    <<"d", "d">>,
    <<"f", "i", "g", "u", "r", "e">>,
    <<"f", "i", "g", "c", "a", "p", "t", "i", "o", "n">>,
    <<"m", "a", "i", "n">>,
    <<"d", "i", "v">>,
    <<"t", "a", "b", "l", "e">>,
    <<"f", "o", "r", "m">>,
    <<"f", "i", "e", "l", "d", "s", "e", "t">>,
    <<"l", "e", "g", "e", "n", "d">>,
    <<"d", "e", "t", "a", "i", "l", "s">>,
    <<"s", "u", "m", "m", "a", "r", "y">> }

\* None where a number is expected, and an attribute not assigned yet
NoneNum == -1

transparent == <<"t", "r", "a", "n", "s", "p", "a", "r", "e", "n", "t">>
backgroundColor == <<"b", "a", "c", "k", "g", "r", "o", "u", "n", "d", "-", "c", "o", "l", "o", "r">>
roman == <<"r", "o", "m", "a", "n">>
br == <<"b", "r">>
h1 == <<"h", "1">>

\* get_font(size, weight, style): equal keys give the same cached font
get_font(size, weight, style) == [size |-> size, weight |-> weight, style |-> style]

\* no font assigned yet
NoFont == get_font(0, <<>>, <<>>)

\* font.measure(text) and font.metrics(name) of tkinter, for a fixed-pitch
\* font whose glyphs are 5/8 of the size wide and whose ascent is 4/5 of it
measure(font, text) == Len(text) * ((5 * font.size) \div 8)

ascent(font) == (4 * font.size) \div 5

descent(font) == font.size - ascent(font)

linespace(font) == ascent(font) + descent(font)

\* dict.get(key, default)
get(d, key, default) == IF key \in DOMAIN d THEN d[key] ELSE default

\* int(float(size_str[:-2]))
PxSize(size_str) == float(SubSeq(size_str, 1, Len(size_str) - 2)).h \div 100

\* "roman" for "normal"
Slant(style) == IF style = normal THEN roman ELSE style

\* the fields every layout object starts with
LayoutObject(kind, node, parent, previous) ==
    [kind |-> kind, node |-> node, parent |-> parent, previous |-> previous,
     children |-> <<>>, x |-> NoneNum, y |-> NoneNum, width |-> NoneNum,
     height |-> NoneNum, cursor_x |-> 0, centre_line |-> FALSE,
     word |-> <<>>, font |-> NoFont]

DocumentLayout(node) == LayoutObject("Document", node, 0, 0)

BlockLayout(node, parent, previous) == LayoutObject("Block", node, parent, previous)

LineLayout(node, parent, previous) == LayoutObject("Line", node, parent, previous)

TextLayout(node, w, parent, previous) ==
    [LayoutObject("Text", node, parent, previous) EXCEPT !.word = w]

\* children[-1] if children else None
LastOf(children) == IF children = <<>> THEN 0 ELSE Top(children)

\* BlockLayout.new_line
new_line(L, b) ==
    [Append(L, LineLayout(L[b].node, b, LastOf(L[b].children)))
        EXCEPT ![b].cursor_x = 0, ![b].children = Append(@, Len(L) + 1)]

\* BlockLayout.add_word_to_line: the estimate of the cursor is made with
\* the font get_font(16, "normal", "roman")
add_word_to_line(L, b, node, w, line) ==
    [Append(L, TextLayout(node, w, line, LastOf(L[line].children)))
        EXCEPT ![line].children = Append(@, Len(L) + 1),
               ![b].cursor_x = @ + measure(get_font(16, normal, roman), w)
                                 + (IF L[line].children # <<>>
                                    THEN measure(get_font(16, normal, roman), <<" ">>)
                                    ELSE 0)]

\* the font BlockLayout.word measures a word of node with
WordFont(node) ==
    get_font(PxSize(get(styles[node], fontSize, <<"1", "6", "p", "x">>)),
             get(styles[node], fontWeight, normal),
             Slant(get(styles[node], fontStyle, normal)))

\* BlockLayout.word: a first line when the block has none
word_line(L, b) == IF L[b].children = <<>> THEN new_line(L, b) ELSE L

\* BlockLayout.word: a new line when the word of width w does not fit
word_wrap(L, b, w) ==
    IF L[b].width # NoneNum /\ L[b].cursor_x + w > L[b].width THEN new_line(L, b) ELSE L

\* BlockLayout.word: the word goes to the last line
word_place(L, b, node, w) == add_word_to_line(L, b, node, w, Top(L[b].children))

\* BlockLayout.word
BlockLayout_word(L, b, node, w) ==
    word_place(word_wrap(word_line(L, b), b, measure(WordFont(node), w)), b, node, w)

\* BlockLayout.recurse on a Text: the loop over node.text.split()
RECURSIVE recurse_words(_, _, _, _)
recurse_words(L, b, node, ws) ==
    IF ws = <<>> THEN L
    ELSE recurse_words(BlockLayout_word(L, b, node, Head(ws)), b, node, Tail(ws))

\* BlockLayout.recurse on an Element: what br and h1 do
recurse_tag(L, b, node) ==
    IF nodes[node].tag = br THEN new_line(L, b)
    ELSE IF nodes[node].tag = h1 THEN [L EXCEPT ![b].centre_line = TRUE]
    ELSE L

RECURSIVE recurse(_, _, _)
RECURSIVE recurse_children(_, _, _)

\* BlockLayout.recurse on an Element: the loop over node.children
recurse_children(L, b, cs) ==
    IF cs = <<>> THEN L
    ELSE recurse_children(recurse(L, b, Head(cs)), b, Tail(cs))

\* BlockLayout.recurse
recurse(L, b, node) ==
    IF nodes[node].kind = "Text"
    THEN recurse_words(L, b, node, split(nodes[node].text))
    ELSE recurse_children(recurse_tag(L, b, node), b, nodes[node].children)

\* BlockLayout.layout_mode
layout_mode(node) ==
    IF nodes[node].kind = "Text" THEN "inline"
    ELSE IF \E k \in 1..Len(nodes[node].children) :
                /\ nodes[nodes[node].children[k]].kind = "Element"
                /\ nodes[nodes[node].children[k]].tag \in BLOCK_ELEMENTS
    THEN "block"
    ELSE IF nodes[node].children # <<>> THEN "inline"
    ELSE "block"

\* the font TextLayout.layout gives a word of node
TextFont(node) ==
    get_font(PxSize(styles[node][fontSize]), styles[node][fontWeight],
             Slant(styles[node][fontStyle]))

\* TextLayout.layout once the font is known
text_place(L, t, font) ==
    [L EXCEPT ![t].font = font,
              ![t].width = measure(font, L[t].word),
              ![t].x = IF L[t].previous # 0
                       THEN IF L[L[t].previous].x # NoneNum
                            THEN L[L[t].previous].x + L[L[t].previous].width
                                   + measure(L[L[t].previous].font, <<" ">>)
                            ELSE @
                       ELSE L[L[t].parent].x,
              ![t].height = linespace(font)]

\* TextLayout.layout
TextLayout_layout(L, t) == text_place(L, t, TextFont(L[t].node))

\* the greatest member of a set of numbers
Maximum(S) == CHOOSE m \in S : \A k \in S : k <= m

\* LineLayout.layout: width, x and y
line_place(L, l) ==
    [L EXCEPT ![l].width = L[L[l].parent].width,
              ![l].x = L[L[l].parent].x,
              ![l].y = IF L[l].previous # 0 /\ L[L[l].previous].y # NoneNum
                       THEN L[L[l].previous].y + L[L[l].previous].height
                       ELSE L[L[l].parent].y]

\* the words of a line left where TextLayout.layout put them, their tops
\* at the top of the line
RECURSIVE line_baseline_Top(_, _, _, _)
line_baseline_Top(L, l, k, max_ascent) ==
    IF k > Len(L[l].children) THEN L
    ELSE line_baseline_Top([L EXCEPT ![L[l].children[k]].y = L[l].y],
                           l, k + 1, max_ascent)

\* LineLayout.layout: the words from the k-th on put on the baseline that
\* max_ascent gives
RECURSIVE line_baseline(_, _, _, _)
line_baseline(L, l, k, max_ascent) ==
    IF k > Len(L[l].children) THEN L
    ELSE line_baseline(
            [L EXCEPT ![L[l].children[k]].y =
                        L[l].y + max_ascent - ascent(L[L[l].children[k]].font)],
            l, k + 1, max_ascent)

\* LineLayout.layout: the baseline and the height of a line that has words
line_align(L, l, max_ascent, max_descent) ==
    [line_baseline(L, l, 1, max_ascent) EXCEPT ![l].height = max_ascent + max_descent]

\* LineLayout.layout after the words are laid out
line_finish(L, l) ==
    IF L[l].children # <<>>
    THEN line_align(L, l,
            Maximum({ascent(L[L[l].children[k]].font) : k \in 1..Len(L[l].children)}),
            Maximum({descent(L[L[l].children[k]].font) : k \in 1..Len(L[l].children)}))
    ELSE [L EXCEPT ![l].height = 0]

\* sum([child.height for child in children])
RECURSIVE SumHeights(_, _)
SumHeights(L, children) ==
    IF children = <<>> THEN 0
    ELSE L[Head(children)].height + SumHeights(L, Tail(children))

\* a block put at the top of its parent whatever precedes it
block_place_AtParent(L, b) ==
    [L EXCEPT ![b].x = L[L[b].parent].x,
              ![b].width = L[L[b].parent].width,
              ![b].y = L[L[b].parent].y]

\* BlockLayout.layout: x, width and y
block_place(L, b) ==
    [L EXCEPT ![b].x = L[L[b].parent].x,
              ![b].width = L[L[b].parent].width,
              ![b].y = IF /\ L[b].previous # 0
                          /\ L[L[b].previous].y # NoneNum
                          /\ L[L[b].previous].height # NoneNum
                       THEN L[L[b].previous].y + L[L[b].previous].height
                       ELSE L[L[b].parent].y]

\* BlockLayout.layout in block mode: a BlockLayout for each child of the node
RECURSIVE block_children(_, _, _, _)
block_children(L, b, cs, previous) ==
    IF cs = <<>> THEN L
    ELSE block_children([Append(L, BlockLayout(Head(cs), b, previous))
                            EXCEPT ![b].children = Append(@, Len(L) + 1)],
                        b, Tail(cs), Len(L) + 1)

\* BlockLayout.layout: the children made, in the mode of the node
block_build(L, b) ==
    IF layout_mode(L[b].node) = "block"
    THEN block_children(L, b, nodes[L[b].node].children, 0)
    ELSE recurse(new_line(L, b), b, L[b].node)

\* BlockLayout.layout: the height
block_height(L, b) == [L EXCEPT ![b].height = SumHeights(L, L[b].children)]

RECURSIVE layout(_, _)
RECURSIVE layout_children(_, _, _)

\* for child in self.children: child.layout(), from the k-th child on
layout_children(L, o, k) ==
    IF k > Len(L[o].children) THEN L
    ELSE layout_children(layout(L, L[o].children[k]), o, k + 1)

\* LineLayout.layout
LineLayout_layout(L, l) == line_finish(layout_children(line_place(L, l), l, 1), l)

\* BlockLayout.layout
BlockLayout_layout(L, b) ==
    block_height(layout_children(block_build(block_place(L, b), b), b, 1), b)

\* layout() of the object o, whatever its class
layout(L, o) ==
    IF L[o].kind = "Block" THEN BlockLayout_layout(L, o)
    ELSE IF L[o].kind = "Line" THEN LineLayout_layout(L, o)
    ELSE TextLayout_layout(L, o)

\* DocumentLayout.layout: width, x, y and the new child
doc_child(L, d) ==
    [Append(L, BlockLayout(L[d].node, d, 0))
        EXCEPT ![d].width = WIDTH - 2 * HSTEP,
               ![d].x = HSTEP,
               ![d].y = VSTEP,
               ![d].children = Append(@, Len(L) + 1)]

\* DocumentLayout.layout: the height, that of the child just made
doc_height(L, d) == [L EXCEPT ![d].height = L[Top(L[d].children)].height]

\* DocumentLayout.layout
DocumentLayout_layout(L, d) ==
    doc_height(BlockLayout_layout(doc_child(L, d), Len(L) + 1), d)

\* x or 0
OrZero(v) == IF v = NoneNum THEN 0 ELSE v

\* DrawRect(self.self_rect(), bgcolor)
DrawRect(o, bgcolor) ==
    [cmd |-> "DrawRect", left |-> OrZero(o.x), top |-> OrZero(o.y),
     right |-> OrZero(o.x) + OrZero(o.width),
     bottom |-> OrZero(o.y) + OrZero(o.height),
     text |-> <<>>, color |-> bgcolor, font |-> NoFont]

\* DrawText(x, y, word, color, font)
DrawText(x1, y1, text, textColor, font) ==
    [cmd |-> "DrawText", left |-> x1, top |-> y1,
     right |-> x1 + measure(font, text), bottom |-> y1 + linespace(font),
     text |-> text, color |-> textColor, font |-> font]

\* paint() with a BlockLayout that draws its background whatever its colour
paint_RectAlways(L, o) ==
    IF L[o].kind = "Block"
    THEN <<DrawRect(L[o], get(styles[L[o].node], backgroundColor, transparent))>>
    ELSE IF L[o].kind = "Text"
    THEN <<DrawText(L[o].x, L[o].y, L[o].word, styles[L[o].node][color], L[o].font)>>
    ELSE <<>>

\* paint() of the object o, whatever its class
paint(L, o) ==
    IF L[o].kind = "Block"
    THEN IF get(styles[L[o].node], backgroundColor, transparent) # transparent
         THEN <<DrawRect(L[o], get(styles[L[o].node], backgroundColor, transparent))>>
         ELSE <<>>
    ELSE IF L[o].kind = "Text"
    THEN <<DrawText(L[o].x, L[o].y, L[o].word, styles[L[o].node][color], L[o].font)>>
    ELSE <<>>

RECURSIVE paint_tree(_, _, _)
RECURSIVE paint_children(_, _, _)

\* paint_tree: the loop over layout_object.children
paint_children(L, cs, dl) ==
    IF cs = <<>> THEN dl
    ELSE paint_children(L, Tail(cs), paint_tree(L, Head(cs), dl))

\* paint_tree(layout_object, display_list)
paint_tree(L, o, dl) == paint_children(L, L[o].children, dl \o paint(L, o))

\* tree_to_list that appends an object after the objects under it
RECURSIVE tree_to_list_ChildrenFirst(_, _, _)
RECURSIVE tree_to_list_ChildrenFirstLoop(_, _, _)
tree_to_list_ChildrenFirstLoop(L, cs, list) ==
    IF cs = <<>> THEN list
    ELSE tree_to_list_ChildrenFirstLoop(L, Tail(cs),
                                        tree_to_list_ChildrenFirst(L, Head(cs), list))

tree_to_list_ChildrenFirst(L, tree, list) ==
    Append(tree_to_list_ChildrenFirstLoop(L, L[tree].children, list), tree)

RECURSIVE tree_to_list(_, _, _)
RECURSIVE tree_to_list_children(_, _, _)

\* tree_to_list: the loop over tree.children
tree_to_list_children(L, cs, list) ==
    IF cs = <<>> THEN list
    ELSE tree_to_list_children(L, Tail(cs), tree_to_list(L, Head(cs), list))

\* tree_to_list(tree, list) on a layout tree
tree_to_list(L, tree, list) ==
    tree_to_list_children(L, L[tree].children, Append(list, tree))

\* the test of Tab.click: whether the rectangle of object o holds the point
Contains(o, x1, y1) ==
    /\ o.x <= x1 /\ x1 < o.x + o.width
    /\ o.y <= y1 /\ y1 < o.y + o.height

\* Tab.click: the objects of the document that hold the point, in the order
\* of tree_to_list
click_objs(L, d, x1, y1) ==
    LET Holds(o) == Contains(L[o], x1, y1)
    IN  SelectSeq(tree_to_list(L, d, <<>>), Holds)

(***************************************************************************)
(* The inputs of layout: styled trees.  A document is an html element over *)
(* blocks; a block holds items, an item being a text or a span around a    *)
(* text.  The trees of the cascade are documents too.                      *)
(***************************************************************************)
\* the most blocks of a document made of short paragraphs
MaxBlocks == 3
\* the most items of a block
MaxItems == 2
\* the most layout passes on a document: the load and the resizes
MaxPasses == 3

span == <<"s", "p", "a", "n">>
li == <<"l", "i">>
px20 == <<"2", "0", "p", "x">>
px30 == <<"3", "0", "p", "x">>

\* a word of n letters
Letters(n) == [k \in 1..n |-> "a"]

LayoutTexts == {
    <<"a", "b">>,
    <<"a", "b", " ", "c", "d">>,
    Letters(60) \o <<" ">> \o Letters(65),
    Letters(100) \o <<" ">> \o Letters(60),
    Letters(130) \o <<" ", "a", "b">>,
    Letters(70) \o <<" ", "a", "b">> }

BlockItems == [inSpan : BOOLEAN, text : LayoutTexts]

\* the nodes of the items of block b, appended to the nodes es
RECURSIVE ItemEntries(_, _, _)
ItemEntries(es, b, items) ==
    IF items = <<>> THEN es
    ELSE ItemEntries(
            IF Head(items).inSpan
            THEN es \o << Element(span, EmptyDict, b),
                          Text(Head(items).text, Len(es) + 1) >>
            ELSE Append(es, Text(Head(items).text, b)),
            b, Tail(items))

\* the nodes of the blocks, appended to the nodes es
RECURSIVE BlockEntries(_, _)
BlockEntries(es, blocks) ==
    IF blocks = <<>> THEN es
    ELSE BlockEntries(ItemEntries(Append(es, Element(Head(blocks).tag, EmptyDict, 1)),
                                  Len(es) + 1, Head(blocks).items),
                      Tail(blocks))

\* the nodes with their children lists filled in, in document order
WithChildren(es) ==
    [k \in 1..Len(es) |->
        [es[k] EXCEPT !.children = Ascending({j \in 1..Len(es) : es[j].parent = k})]]

DocOf(blocks) == WithChildren(BlockEntries(<<Element(html, EmptyDict, 0)>>, blocks))

OneBlockDocs ==
    { DocOf(<<[tag |-> tag, items |-> items]>>) :
        tag \in {pTag, divTag, li},
        items \in UNION { [1..n -> BlockItems] : n \in 1..MaxItems } }

ShortBlocks ==
    { [tag |-> tag, items |-> <<[inSpan |-> FALSE, text |-> <<"a", "b">>]>>] :
        tag \in {pTag, divTag, li} }

ManyBlockDocs ==
    { DocOf(blocks) : blocks \in UNION { [1..n -> ShortBlocks] : n \in 2..MaxBlocks } }

\* the tree HTMLParser.parse returns for <h1>Hi</h1>
HeadingDocs ==
    { WithChildren(<< Element(html, EmptyDict, 0), Element(bodyTag, EmptyDict, 1),
                      Element(h1, EmptyDict, 2), Text(<<"H", "i">>, 3) >>) }

LayoutDocs == OneBlockDocs \cup ManyBlockDocs \cup StyleTrees \cup HeadingDocs

LayoutSheets == {
    <<>>,
    << <<TagSelector(pTag), DictSet(EmptyDict, fontSize, px10)>>,
       <<TagSelector(divTag), DictSet(EmptyDict, fontSize, px20)>>,
       <<TagSelector(li), DictSet(EmptyDict, fontSize, px30)>>,
       <<TagSelector(span), DictSet(EmptyDict, fontSize, px32)>> >>,
    << <<TagSelector(span), DictSet(EmptyDict, fontSize, px32)>>,
       <<TagSelector(divTag), DictSet(EmptyDict, backgroundColor, gray)>> >> }

\* the styles style gives the nodes from the k-th on, in document order
RECURSIVE StyleAll(_, _, _, _)
StyleAll(ns, rs, sty, k) ==
    IF k > Len(ns) THEN sty
    ELSE StyleAll(ns, rs, DictSet(sty, k, style_node(ns, sty, rs, k).style), k + 1)

\* Tab.load after style has returned
InitLayout ==
    /\ nodes \in LayoutDocs
    /\ root = 1
    /\ rules \in LayoutSheets
    /\ sheet = rules
    /\ styles = StyleAll(nodes, rules, EmptyDict, 1)
    /\ todo = <<>>
    /\ spc = "done"
    /\ ParsersDone
    /\ LayoutIdle

\* Tab.load from DocumentLayout(self.tree) on
LoadLayout ==
    /\ spc = "done"
    /\ document = 0
    /\ document' = Len(lay) + 1
    /\ lay' = DocumentLayout_layout(Append(lay, DocumentLayout(root)), Len(lay) + 1)
    /\ display_list' = paint_tree(lay', document', <<>>)
    /\ passes' = 1
    /\ UNCHANGED tabVars
    /\ UNCHANGED styleVars
    /\ UNCHANGED cssVars
    /\ UNCHANGED htmlVars

\* Tab.window_resize on a tab that has a document
WindowResize ==
    /\ document # 0
    /\ passes < MaxPasses
    /\ lay' = DocumentLayout_layout(lay, document)
    /\ display_list' = paint_tree(lay', document, <<>>)
    /\ passes' = passes + 1
    /\ UNCHANGED document
    /\ UNCHANGED tabVars
    /\ UNCHANGED styleVars
    /\ UNCHANGED cssVars
    /\ UNCHANGED htmlVars

NextLayout == LoadLayout \/ WindowResize

\* the layout of a styled tree at load and at each resize of the window
SpecLayout == InitLayout /\ [][NextLayout]_vars

(***************************************************************************)
(* DocumentLayout(tree).layout() called on a tree that style has not fully *)
(* resolved: the style of an Element may lack every property, layout reads *)
(* none of them; the style of a Text may lack color, which only paint      *)
(* reads.  (A Text without font-size, font-style or font-weight makes      *)
(* TextLayout.layout raise KeyError: those trees are not inputs here.)     *)
(***************************************************************************)
\* the style d without the property key
Without(d, key) == [k \in DOMAIN d \ {key} |-> d[k]]

\* the styles sty with those of the nodes in dropped left unresolved
Unresolve(ns, sty, dropped) ==
    [n \in 1..Len(ns) |->
        IF n \notin dropped THEN sty[n]
        ELSE IF ns[n].kind = "Text" THEN Without(sty[n], color)
        ELSE EmptyDict]

InitUnstyled ==
    /\ nodes \in ManyBlockDocs
    /\ root = 1
    /\ rules = <<>>
    /\ sheet = rules
    /\ \E n \in 1..Len(nodes), m \in 1..Len(nodes) :
          styles = Unresolve(nodes, StyleAll(nodes, rules, EmptyDict, 1), {n, m})
    /\ todo = <<>>
    /\ spc = "done"
    /\ ParsersDone
    /\ LayoutIdle

\* DocumentLayout(tree).layout(), called on its own
LayoutEntry ==
    /\ spc = "done"
    /\ document = 0
    /\ document' = Len(lay) + 1
    /\ lay' = DocumentLayout_layout(Append(lay, DocumentLayout(root)), Len(lay) + 1)
    /\ passes' = 1
    /\ UNCHANGED display_list
    /\ UNCHANGED tabVars
    /\ UNCHANGED styleVars
    /\ UNCHANGED cssVars
    /\ UNCHANGED htmlVars

\* a further DocumentLayout.layout() on the same document
LayoutAgain ==
    /\ document # 0
    /\ passes < MaxPasses
    /\ lay' = DocumentLayout_layout(lay, document)
    /\ passes' = passes + 1
    /\ UNCHANGED <<document, display_list>>
    /\ UNCHANGED tabVars
    /\ UNCHANGED styleVars
    /\ UNCHANGED cssVars
    /\ UNCHANGED htmlVars

NextUnstyled == LayoutEntry \/ LayoutAgain

\* the layout entry point on trees with unresolved styles
SpecUnstyled == InitUnstyled /\ [][NextUnstyled]_vars

(***************************************************************************)
(* A Tab: load, go_back, window_resize, the four scroll methods and the    *)
(* scrollbar.  A URL is the name of a page.  nodes holds the trees that    *)
(* load gets from the pages once parsed, styles their styles once styled;  *)
(* root is the tree of the page loaded last, self.tree.  history is        *)
(* self.history, url is self.url, scroll is self.scroll.  load builds a    *)
(* new DocumentLayout and drops the old one: lay holds the objects of the  *)
(* current document only.                                                  *)
(***************************************************************************)
HEIGHT == 720
SCROLL_STEP == 20
\* the most entries of the history before a further load
MaxHistory == 3

px400 == <<"4", "0", "0", "p", "x">>
px700 == <<"7", "0", "0", "p", "x">>

\* Chrome.__init__: self.bottom, the bottom of the address bar
chrome_bottom == 2 * (linespace(get_font(20, normal, roman)) + 2 * 5)

\* Browser.new_tab: tab_height
tab_height == HEIGHT - chrome_bottom

URLs == {"short", "mid", "long"}

\* the rules load gathers, the same for every page
TabSheet ==
    << <<TagSelector(pTag), DictSet(EmptyDict, fontSize, px400)>>,
       <<TagSelector(divTag), DictSet(EmptyDict, fontSize, px700)>> >>

\* the tree load gets from the page at u: a line of 16px, one of 700px,
\* two of 400px
PageAt(u) ==
    LET ab == <<[inSpan |-> FALSE, text |-> <<"a", "b">>]>>
    IN  IF u = "short" THEN DocOf(<<[tag |-> li, items |-> ab]>>)
        ELSE IF u = "mid" THEN DocOf(<<[tag |-> divTag, items |-> ab]>>)
        ELSE DocOf(<<[tag |-> pTag, items |-> ab], [tag |-> pTag, items |-> ab]>>)

\* the nodes of a tree, their ids moved up by off
RECURSIVE Moved(_, _)
Moved(ids, off) ==
    IF ids = <<>> THEN <<>> ELSE <<Head(ids) + off>> \o Moved(Tail(ids), off)

RECURSIVE MovedTree(_, _, _)
MovedTree(tree, off, k) ==
    IF k > Len(tree) THEN <<>>
    ELSE << [tree[k] EXCEPT !.parent = IF @ = 0 THEN 0 ELSE @ + off,
                            !.children = Moved(@, off)] >>
         \o MovedTree(tree, off, k + 1)

\* the trees of the three pages, one after the other
TabNodes ==
    PageAt("short") \o MovedTree(PageAt("mid"), Len(PageAt("short")), 1)
        \o MovedTree(PageAt("long"), Len(PageAt("short")) + Len(PageAt("mid")), 1)

\* the root of the tree of the page at u
RootAt(u) ==
    IF u = "short" THEN 1
    ELSE IF u = "mid" THEN Len(PageAt("short")) + 1
    ELSE Len(PageAt("short")) + Len(PageAt("mid")) + 1

\* Tab.__init__
InitTab ==
    /\ nodes = TabNodes
    /\ root = 0
    /\ sheet = TabSheet
    /\ rules = sorted(TabSheet)
    /\ styles = StyleAll(TabNodes, sorted(TabSheet), EmptyDict, 1)
    /\ todo = <<>>
    /\ spc = "done"
    /\ ParsersDone
    /\ LayoutIdle

\* Tab.load that leaves self.url as it finds it
load_KeepUrl(h, u) ==
    /\ history' = Append(h, u)
    /\ url' = url
    /\ root' = RootAt(u)
    /\ document' = 1
    /\ lay' = DocumentLayout_layout(<<DocumentLayout(RootAt(u))>>, 1)
    /\ display_list' = paint_tree(lay', 1, <<>>)
    /\ passes' = 1
    /\ UNCHANGED <<scroll, nodes, body, i, buffer, in_tag, unfinished, pc>>
    /\ UNCHANGED <<styleVars, cssVars>>

\* Tab.load(u), self.history being h when it is called
load(h, u) ==
    /\ history' = Append(h, u)
    /\ url' = u
    /\ root' = RootAt(u)
    /\ document' = 1
    /\ lay' = DocumentLayout_layout(<<DocumentLayout(RootAt(u))>>, 1)
    /\ display_list' = paint_tree(lay', 1, <<>>)
    /\ passes' = 1
    /\ UNCHANGED <<scroll, nodes, body, i, buffer, in_tag, unfinished, pc>>
    /\ UNCHANGED <<styleVars, cssVars>>

\* Tab.load from the address bar or a link
TabLoad ==
    /\ Len(history) < MaxHistory
    /\ \E u \in URLs : load(history, u)

\* Tab.go_back with one pop: the load of the entry under the current one
GoBack_OnePop ==
    IF Len(history) > 1
    THEN load(SubSeq(history, 1, Len(history) - 1), history[Len(history) - 1])
    ELSE UNCHANGED vars

\* Tab.go_back: two pops and the load of the entry popped last
GoBack ==
    IF Len(history) > 1
    THEN load(SubSeq(history, 1, Len(history) - 2), history[Len(history) - 1])
    ELSE UNCHANGED vars

Max(a, b) == IF a >= b THEN a ELSE b

Min(a, b) == IF a <= b THEN a ELSE b

\* Tab.scroll_up
ScrollUp ==
    /\ scroll' = Max(scroll - SCROLL_STEP, 0)
    /\ UNCHANGED <<history, url, lay, document, display_list, passes>>
    /\ UNCHANGED <<styleVars, cssVars, htmlVars>>

\* Tab.scroll_down
ScrollDown ==
    /\ IF document # 0 /\ lay[document].height # NoneNum
       THEN scroll' = Min(scroll + SCROLL_STEP,
                          Max(lay[document].height + 2 * VSTEP - tab_height, 0))
       ELSE scroll' = scroll
    /\ UNCHANGED <<history, url, lay, document, display_list, passes>>
    /\ UNCHANGED <<styleVars, cssVars, htmlVars>>

\* Tab.scroll_page_up
ScrollPageUp ==
    /\ scroll' = Max(scroll - HEIGHT, 0)
    /\ UNCHANGED <<history, url, lay, document, display_list, passes>>
    /\ UNCHANGED <<styleVars, cssVars, htmlVars>>

\* Tab.scroll_page_down
ScrollPageDown ==
    /\ IF document # 0 /\ lay[document].height # NoneNum
       THEN scroll' = Min(scroll + HEIGHT,
                          Max(lay[document].height + 2 * VSTEP - HEIGHT, 0))
       ELSE scroll' = scroll
    /\ UNCHANGED <<history, url, lay, document, display_list, passes>>
    /\ UNCHANGED <<styleVars, cssVars, htmlVars>>

\* the values the scrollbar hands to move, in quarters
Quarters == {-2, 0, 1, 2, 3, 4, 6}

\* Tab.move("moveto", value), value being quarters / 4: the fraction is
\* clamped to 0.0 .. 1.0 and int() truncates
Move ==
    /\ document # 0
    /\ lay[document].height # NoneNum
    /\ \E quarters \in Quarters :
          scroll' = (Max(0, Min(quarters, 4))
                       * Max(lay[document].height + 2 * VSTEP - tab_height, 0)) \div 4
    /\ UNCHANGED <<history, url, lay, document, display_list, passes>>
    /\ UNCHANGED <<styleVars, cssVars, htmlVars>>

NextTab ==
    \/ TabLoad \/ GoBack \/ WindowResize
    \/ ScrollUp \/ ScrollDown \/ ScrollPageUp \/ ScrollPageDown \/ Move

\* a tab under the operations of its user
SpecTab == InitTab /\ [][NextTab]_vars

(***************************************************************************)
(* Properties of the markup parser.                                        *)
(***************************************************************************)
NodeIds == 1..Len(nodes)

Children(n) == { nodes[n].children[k] : k \in 1..Len(nodes[n].children) }

\* the places <<p, k>> where node n stands in a children list
Slots(n) ==
    { sl \in UNION { {<<p, k>> : k \in 1..Len(nodes[p].children)} : p \in NodeIds } :
        nodes[sl[1]].children[sl[2]] = n }

\* whether the parent links lead from n to the root in at most fuel steps
RECURSIVE ClimbsToRoot(_, _)
ClimbsToRoot(n, fuel) ==
    IF n = root THEN TRUE
    ELSE IF fuel = 0 \/ nodes[n].parent = 0 THEN FALSE
    ELSE ClimbsToRoot(nodes[n].parent, fuel - 1)

\* the nodes reached from n through children lists, to a depth of fuel
RECURSIVE Subtree(_, _)
Subtree(n, fuel) ==
    IF fuel = 0 THEN {n}
    ELSE {n} \cup UNION { Subtree(c, fuel - 1) : c \in Children(n) }

\* a ">" that ends a closing tag is about to be processed
ClosingTagNext ==
    /\ pc = "scan"
    /\ i < Len(body)
    /\ body[i + 1] = ">"
    /\ in_tag
    /\ startswith(strip(buffer), "/")

\* the name of that closing tag
ClosingName == Tail(get_attributes(strip(buffer)).tag)

tokA == <<"<", "a", " ", "h", "=", "1", ">">>
tokB == <<"<", "B", ">">>
tokCloseA == <<"<", "/", "a", ">">>
tokHtml == <<"<", "h", "t", "m", "l", ">">>
tokTitle == <<"<", "t", "i", "t", "l", "e", ">">>

\* C1: parse returns a root and raises no exception, for every input.
\* (Refuted: an empty tag, "<>", raises IndexError in get_attributes.)
C1_ParseNeverRaises == pc # "raised"

\* C2: in the tree parse returns, every node but the root stands in exactly
\* one children list, once, and its parent field is the owner of that list;
\* the root's parent is None and the tree is acyclic.
C2_TreeWellFormed ==
    pc = "done" =>
        /\ root \in NodeIds
        /\ nodes[root].parent = 0
        /\ Slots(root) = {}
        /\ \A n \in NodeIds \ {root} :
              /\ Cardinality(Slots(n)) = 1
              /\ \A sl \in Slots(n) : nodes[n].parent = sl[1]
        /\ \A n \in NodeIds : ClimbsToRoot(n, Len(nodes))

\* a returned tree with a text inside an element inside the body
C2_Witness ==
    /\ pc = "done"
    /\ \E n \in NodeIds :
          /\ nodes[n].kind = "Text"
          /\ nodes[n].parent # 0
          /\ nodes[nodes[n].parent].tag = <<"b">>
          /\ nodes[nodes[n].parent].parent # root

\* C3: parse orphans no node: while scanning, every node created so far is
\* in the subtree of an open element; every node is reachable from the root
\* returned; and the elements still open at the end of the input are each
\* appended to the element opened before them.
C3_NoOrphan ==
    /\ [](pc = "scan" =>
            \A n \in NodeIds :
                \E k \in 1..Len(unfinished) : n \in Subtree(unfinished[k], Len(nodes)))
    /\ [](pc = "done" => Subtree(root, Len(nodes)) = NodeIds)
    /\ [][(pc = "scan" /\ pc' = "done") =>
            \A k \in 2..Len(unfinished) :
                LET kids == nodes'[unfinished[k - 1]].children
                IN  \E j \in 1..Len(kids) : kids[j] = unfinished[k]]_vars

\* <a><b></a> has been parsed, and b is a child of a
C3_Witness ==
    /\ pc = "done"
    /\ body = tokA \o tokB \o tokCloseA
    /\ \E n, p \in NodeIds :
          /\ nodes[n].tag = <<"b">>
          /\ nodes[p].tag = <<"a">>
          /\ n \in Children(p)
          /\ p \in Subtree(root, Len(nodes))

\* the input with every whitespace run collapsed to one space and every
\* known entity replaced, as C4 states it
RECURSIVE ClaimedText(_, _)
ClaimedText(t, at) ==
    IF at >= Len(t) THEN <<>>
    ELSE IF IsSpace(t[at + 1])
    THEN IF at > 0 /\ IsSpace(t[at]) THEN ClaimedText(t, at + 1)
         ELSE <<" ">> \o ClaimedText(t, at + 1)
    ELSE IF t[at + 1] = "&" /\ MatchEntity(t, at, 4) # <<>>
    THEN EntityValue(MatchEntity(t, at, 4))
            \o ClaimedText(t, at + Len(MatchEntity(t, at, 4)))
    ELSE <<t[at + 1]>> \o ClaimedText(t, at + 1)

\* the input as items [c, raw]: each known entity replaced by its
\* characters (raw FALSE), every other character kept (raw TRUE)
RECURSIVE Items(_, _)
Items(t, at) ==
    IF at >= Len(t) THEN <<>>
    ELSE IF t[at + 1] = "&" /\ MatchEntity(t, at, 4) # <<>>
    THEN LET e == MatchEntity(t, at, 4)
         IN  [k \in 1..Len(EntityValue(e)) |-> [c |-> EntityValue(e)[k], raw |-> FALSE]]
                \o Items(t, at + Len(e))
    ELSE <<[c |-> t[at + 1], raw |-> TRUE]>> \o Items(t, at + 1)

\* the text of the items: a whitespace character of the input is dropped
\* when it starts the input or follows whitespace or a space that an
\* entity stands for, and is one space otherwise
RECURSIVE ItemsText(_, _)
ItemsText(its, k) ==
    IF k > Len(its) THEN <<>>
    ELSE IF its[k].raw /\ IsSpace(its[k].c)
    THEN IF k = 1 \/ IsSpace(its[k - 1].c) THEN ItemsText(its, k + 1)
         ELSE <<" ">> \o ItemsText(its, k + 1)
    ELSE <<its[k].c>> \o ItemsText(its, k + 1)

ExpectedText(t) == ItemsText(Items(t, 0), 1)

TextNodes == { n \in NodeIds : nodes[n].kind = "Text" }

\* C4, as stated: an input without < and > yields a text node whose text is
\* the input with whitespace runs collapsed and entities replaced.
\* (Refuted: leading whitespace is dropped, and an input that comes to
\* nothing but whitespace yields no text node.)
C4_TextIsCollapsedInput ==
    pc = "done" => \E n \in TextNodes : nodes[n].text = ClaimedText(body, 0)

\* C4, amended: for an input without < and >, take the input with its
\* known entities replaced and with each whitespace character dropped that
\* starts the input or follows whitespace or an &nbsp;, the others being
\* one space each.  If that text is empty or all spaces the tree holds no
\* text node; otherwise it holds exactly one, a child of the body, with
\* that text.
C4_TextIsExpected ==
    pc = "done" =>
        LET t == ExpectedText(body)
        IN  IF t = <<>> \/ IsSpaceStr(t)
            THEN TextNodes = {}
            ELSE /\ Cardinality(TextNodes) = 1
                 /\ \A n \in TextNodes :
                       /\ nodes[n].text = t
                       /\ nodes[nodes[n].parent].tag = bodyTag
                       /\ nodes[nodes[n].parent].parent = root

\* a text with leading whitespace, an inner run and an entity was parsed
C4_Witness ==
    /\ pc = "done"
    /\ body = <<" ", "x", "\n", "&", "a", "m", "p", ";">>
    /\ \E n \in TextNodes : nodes[n].text = <<"x", " ", "&">>

\* C5: the tree returned has the skeleton: the root is html, its children
\* are head and body elements, and the children of a head under the root
\* are elements with head tags.
C5_Skeleton ==
    pc = "done" =>
        /\ nodes[root].kind = "Element"
        /\ nodes[root].tag = html
        /\ \A c \in Children(root) :
              /\ nodes[c].kind = "Element"
              /\ nodes[c].tag \in {head, bodyTag}
              /\ nodes[c].tag = head =>
                    \A g \in Children(c) :
                        nodes[g].kind = "Element" /\ nodes[g].tag \in HEAD_TAGS

\* a tree with a head that holds a title, and a body that holds text
C5_Witness ==
    /\ pc = "done"
    /\ \E h, b \in Children(root) :
          /\ nodes[h].tag = head
          /\ \E g \in Children(h) : nodes[g].tag = <<"t", "i", "t", "l", "e">>
          /\ nodes[b].tag = bodyTag
          /\ \E x \in Children(b) : nodes[x].kind = "Text"

\* C6: a closing tag whose name is the tag of no open element closes no
\* element: every open element stays open.
\* (Refuted: add_tag pops the innermost open element whatever the name.)
C6_UnmatchedCloseDropped ==
    [][(/\ ClosingTagNext
        /\ \A k \in 1..Len(unfinished) : nodes[unfinished[k]].tag # ClosingName)
        => /\ Len(unfinished') >= Len(unfinished)
           /\ SubSeq(unfinished', 1, Len(unfinished)) = unfinished]_vars

\* C7: with only the root open, a closing tag of any name leaves the stack
\* and the tree built so far unchanged.
\* (Refuted: for a name other than /html, implicit_tags opens a body that
\* the closing tag then closes: the root gets an empty body child.)
C7_CloseAtRootIgnored ==
    [][(ClosingTagNext /\ Len(unfinished) = 1)
        => (unfinished' = unfinished /\ nodes' = nodes)]_vars

(***************************************************************************)
(* Properties of the stylesheet parser.                                    *)
(***************************************************************************)
IsPrefix(a, b) == Len(a) <= Len(b) /\ SubSeq(b, 1, Len(a)) = a

\* C8: CSSParser.parse raises for no input and terminates: each iteration
\* of its loop returns or moves on in the text, which it never overruns.
\* A rule once in the list stays in it, whatever malformed or unterminated
\* rule follows.
C8_ParseReturnsRules ==
    /\ [](cpc \in {"parse", "done"} /\ si <= Len(s))
    /\ [][cpc = "parse" => (cpc' = "done" \/ si' > si)]_vars
    /\ [][IsPrefix(rules, rules')]_vars

\* parse has returned the rule that stands before an unterminated rule
C8_Witness ==
    /\ cpc = "done"
    /\ s = <<"p", "{", "}", "p", "{">>
    /\ rules = << <<TagSelector(<<"p">>), EmptyDict>> >>

\* the property map of a body by C9 as stated: the well-formed
\* declarations, in order
RECURSIVE ClaimedPairs(_, _)
ClaimedPairs(ds, k) ==
    IF k = 0 THEN EmptyDict
    ELSE IF ds[k].wf /\ ds[k].adds # <<>>
    THEN DictSet(ClaimedPairs(ds, k - 1), ds[k].adds[1], ds[k].adds[2])
    ELSE ClaimedPairs(ds, k - 1)

\* the property map of a body: what each declaration declares up to its
\* value, in order
RECURSIVE ExpectedPairs(_, _)
ExpectedPairs(ds, k) ==
    IF k = 0 THEN EmptyDict
    ELSE IF ds[k].adds # <<>>
    THEN DictSet(ExpectedPairs(ds, k - 1), ds[k].adds[1], ds[k].adds[2])
    ELSE ExpectedPairs(ds, k - 1)

\* the declarations of the body of a sheet, the last one included
Decls(sh) == Append(sh.decls, sh.last)

\* C9, as stated: a malformed declaration adds no property to the map of
\* its rule; the well-formed declarations of the body are kept.
\* (Refuted: body records the pair as soon as pair returns, so a
\* declaration with anything but ";" after its value adds its property.)
C9_MalformedAddsNothing ==
    cpc = "done" =>
        rules = << <<TagSelector(<<"p">>),
                     ClaimedPairs(Decls(sheet), Len(Decls(sheet)))>> >>

\* C9, amended: a declaration whose "word : word" part parses adds that
\* property even when something other than ";" follows the value; a
\* declaration whose property, colon or value is missing adds nothing.
\* Either way parsing goes on after the next ";" or ends the body at the
\* next "}", and the declarations before and after are recorded alike.
C9_PairKeptUpToValue ==
    cpc = "done" =>
        rules = << <<TagSelector(<<"p">>),
                     ExpectedPairs(Decls(sheet), Len(Decls(sheet)))>> >>

\* a body was parsed in which a declaration with no colon stands between
\* two well-formed ones, and one in which junk follows the value of c
C9_Witness ==
    /\ cpc = "done"
    /\ Len(sheet.decls) = 3
    /\ sheet.decls[1].text = <<"c", ":", "g", " ", "!", "i", ";">>
    /\ sheet.decls[2].text = <<"c", " ", "r", ";">>
    /\ sheet.decls[3].wf
    /\ DOMAIN rules[1][2] = {<<"c">>, <<"d">>}
    /\ rules[1][2][<<"c">>] = <<"g">>

\* the first rule token after k that holds a "}", 0 when there is none
RECURSIVE NextClose(_, _)
NextClose(sh, k) ==
    IF k >= Len(sh) THEN 0
    ELSE IF sh[k + 1].kind # "unterminated" THEN k + 1
    ELSE NextClose(sh, k + 1)

\* the rules of a sheet by C10 as stated: no rule for a malformed rule
RECURSIVE ClaimedRules(_, _)
ClaimedRules(sh, k) ==
    IF k > Len(sh) THEN <<>>
    ELSE IF sh[k].kind = "good" THEN <<sh[k].rule>> \o ClaimedRules(sh, k + 1)
    ELSE IF sh[k].kind = "selector" THEN ClaimedRules(sh, k + 1)
    ELSE IF NextClose(sh, k) = 0 THEN <<>>
    ELSE ClaimedRules(sh, NextClose(sh, k) + 1)

\* the rule of the unterminated rule token k whose body runs to the "}" of
\* token j: its own declarations and what the tokens up to j declare
AbsorbedRule(sh, k, j) ==
    << sh[k].rule[1],
       ExpectedPairs([n \in 1..(j - k) |-> [adds |-> sh[k + n].absorbs]], j - k)
           @@ sh[k].rule[2] >>

\* the rules of a sheet
RECURSIVE ExpectedRules(_, _)
ExpectedRules(sh, k) ==
    IF k > Len(sh) THEN <<>>
    ELSE IF sh[k].kind = "good" THEN <<sh[k].rule>> \o ExpectedRules(sh, k + 1)
    ELSE IF sh[k].kind = "selector" THEN ExpectedRules(sh, k + 1)
    ELSE IF NextClose(sh, k) = 0 THEN <<>>
    ELSE <<AbsorbedRule(sh, k, NextClose(sh, k))>>
            \o ExpectedRules(sh, NextClose(sh, k) + 1)

RECURSIVE TagCount(_)
TagCount(sel) ==
    IF sel.kind = "tag" THEN 1
    ELSE TagCount(sel.ancestor) + TagCount(sel.descendant)

\* the strict ancestors of node n
RECURSIVE StrictAncestors(_)
StrictAncestors(n) ==
    IF nodes[n].parent = 0 THEN {}
    ELSE {nodes[n].parent} \cup StrictAncestors(nodes[n].parent)

\* the rules of the sheet of a given specificity, in sheet order
OfSpecificity(k) ==
    LET Is(rule) == TagCount(rule[1]) = k
    IN  SelectSeq(sheet, Is)

\* the places in the sheet of the rules that match node n and set property
Declaring(n, property) ==
    { k \in 1..Len(sheet) : matches(nodes, sheet[k][1], n)
                              /\ property \in DOMAIN sheet[k][2] }

\* among them, the latest of those of the highest specificity
Winner(n, property) ==
    CHOOSE k \in Declaring(n, property) :
        \A j \in Declaring(n, property) :
            \/ TagCount(sheet[j][1]) < TagCount(sheet[k][1])
            \/ TagCount(sheet[j][1]) = TagCount(sheet[k][1]) /\ j <= k

\* the sheet holds p {color:red} and div p {color:blue}, and no other rule
RedAndBlue ==
    LET pRed == <<TagSelector(pTag), DictSet(EmptyDict, color, red)>>
        divpBlue == <<DescendantSelector(TagSelector(divTag), TagSelector(pTag)),
                      DictSet(EmptyDict, color, blue)>>
    IN  { sheet[k] : k \in 1..Len(sheet) } = {pRed, divpBlue}

\* C11: a selector of n tag words has priority n; the rules are styled in
\* the order of a stable sort by ascending priority; and when style has
\* returned, a property that matching rules set on a node has the value of
\* the matching rule of the highest specificity, the latest in sheet order
\* among equals: under p {color:red} and div p {color:blue}, in either
\* order, a p inside a div is blue and a p outside every div is red.
C11_HighestSpecificityWins ==
    /\ \A k \in 1..Len(sheet) : cascade_priority(sheet[k]) = TagCount(sheet[k][1])
    /\ spc # "load" => rules = OfSpecificity(1) \o OfSpecificity(2) \o OfSpecificity(3)
    /\ spc = "done" =>
         \A n \in NodeIds :
            /\ Declaring(n, color) # {} =>
                  styles[n][color] = sheet[Winner(n, color)][2][color]
            /\ RedAndBlue /\ nodes[n].kind = "Element" /\ nodes[n].tag = pTag =>
                  styles[n][color] =
                      IF \E a \in StrictAncestors(n) : nodes[a].tag = divTag
                      THEN blue ELSE red

\* style has returned for div p {color:blue} before p {color:red}: a p
\* inside a div is blue, a p beside it is red
C11_Witness ==
    /\ spc = "done"
    /\ Len(sheet) = 2
    /\ sheet[1][1].priority = 2
    /\ sheet[2][1] = TagSelector(pTag)
    /\ sheet[2][2][color] = red
    /\ \E n, m \in NodeIds :
          /\ nodes[n].tag = pTag /\ styles[n][color] = blue
          /\ nodes[m].tag = pTag /\ styles[m][color] = red

\* whether a selector matches node n, as the sentence defines it
RECURSIVE SelectorMatches(_, _)
SelectorMatches(sel, n) ==
    IF sel.kind = "tag"
    THEN nodes[n].kind = "Element" /\ nodes[n].tag = sel.tag
    ELSE /\ SelectorMatches(sel.descendant, n)
         /\ \E a \in StrictAncestors(n) : SelectorMatches(sel.ancestor, a)

\* the tag words of a selector, left to right
RECURSIVE TagWords(_)
TagWords(sel) ==
    IF sel.kind = "tag" THEN <<sel.tag>>
    ELSE TagWords(sel.ancestor) \o TagWords(sel.descendant)

\* C12: a tag selector matches exactly the elements of its tag and no text;
\* a descendant selector matches a node exactly when its descendant part
\* matches the node and its ancestor part matches some strict ancestor, at
\* any depth; a chain of tag words is nested to the left, its last word
\* being the descendant part.
C12_SelectorMatching ==
    \A k \in 1..Len(sheet) : \A n \in NodeIds :
        /\ matches(nodes, sheet[k][1], n) <=> SelectorMatches(sheet[k][1], n)
        /\ nodes[n].kind = "Text" => ~matches(nodes, sheet[k][1], n)
        /\ sheet[k][1].kind = "descendant" => sheet[k][1].descendant.kind = "tag"

\* a rule of div p has been applied to a p whose parent is not a div, and
\* div div p is in the sheet
C12_Witness ==
    /\ spc = "done"
    /\ \E k \in 1..Len(sheet) : TagWords(sheet[k][1]) = <<divTag, divTag, pTag>>
    /\ \E n \in NodeIds :
          /\ nodes[n].tag = pTag
          /\ nodes[nodes[n].parent].tag = pTag
          /\ styles[n][color] = blue


\* the fixed default of an inherited property
FixedDefault(property) ==
    CASE property = fontSize -> <<"1", "6", "p", "x">>
      [] property = fontStyle -> <<"n", "o", "r", "m", "a", "l">>
      [] property = fontWeight -> <<"n", "o", "r", "m", "a", "l">>
      [] property = color -> <<"b", "l", "a", "c", "k">>

\* C13: for each of font-size, font-style, font-weight and color, a styled
\* node on which no matching rule sets the property has the resolved value
\* of its parent, the root the fixed default (16px, normal, normal, black);
\* any other property is on a node only if a rule matching the node sets it.
C13_Inheritance ==
    /\ InheritedNames = {fontSize, fontStyle, fontWeight, color}
    /\ \A n \in DOMAIN styles :
          /\ \A property \in {fontSize, fontStyle, fontWeight, color} :
                Declaring(n, property) = {} =>
                    styles[n][property] =
                        IF n = root THEN FixedDefault(property)
                        ELSE styles[nodes[n].parent][property]
          /\ \A property \in DOMAIN styles[n] \ {fontSize, fontStyle, fontWeight, color} :
                Declaring(n, property) # {}

\* style has returned; a text inside an italic p of set width is italic and
\* has no width, and the root has the default size
C13_Witness ==
    /\ spc = "done"
    /\ styles[root][fontSize] = FixedDefault(fontSize)
    /\ \E n \in NodeIds :
          /\ nodes[n].kind = "Text"
          /\ styles[n][fontStyle] = italic
          /\ width \notin DOMAIN styles[n]
          /\ width \in DOMAIN styles[nodes[n].parent]

\* the font-size the rules give node n, before percentages are resolved
Declared(n) == sheet[Winner(n, fontSize)][2][fontSize]

\* the number before px, in hundredths
PxHundredths(v) == float(SubSeq(v, 1, Len(v) - 2)).h

\* the number before %
Percent(v) == DigitsValue(SubSeq(v, 1, Len(v) - 1))

\* a node whose style has been computed in full
Resolved(n) == n \in DOMAIN styles /\ ~(spc = "raised" /\ n = Head(todo))

\* C14 as written: a node of font-size 50% whose parent resolved to 32px
\* has the font-size 16px.
C14_HalfOf32Is16px ==
    \A n \in NodeIds :
        /\ Resolved(n) /\ n # root
        /\ Declaring(n, fontSize) # {} /\ Declared(n) = pct50
        /\ styles[nodes[n].parent][fontSize] = px32
        => styles[n][fontSize] = <<"1", "6", "p", "x">>

\* C14, amended: a percentage is resolved against the resolved size of the
\* immediate parent (the root against 16px) and written as a float with its
\* decimal point, 50% of 32px being 16.0px; no resolved font-size ends in
\* %; and style raises only on a percentage whose parent's size is not a
\* number followed by two characters.
C14_PercentResolved ==
    /\ \A n \in NodeIds : Resolved(n) =>
          /\ ~endswith(styles[n][fontSize], "%")
          /\ Declaring(n, fontSize) # {} /\ endswith(Declared(n), "%") =>
                /\ PxHundredths(styles[n][fontSize]) * 100 =
                      Percent(Declared(n))
                        * (IF n = root THEN 1600
                           ELSE PxHundredths(styles[nodes[n].parent][fontSize]))
                /\ IndexOf(styles[n][fontSize], ".", 1) > 0
                /\ SubSeq(styles[n][fontSize], Len(styles[n][fontSize]) - 1,
                          Len(styles[n][fontSize])) = <<"p", "x">>
          /\ /\ n # root
             /\ Declaring(n, fontSize) # {} /\ Declared(n) = pct50
             /\ styles[nodes[n].parent][fontSize] = px32
             => styles[n][fontSize] = <<"1", "6", ".", "0", "p", "x">>
    /\ spc = "raised" =>
          /\ endswith(styles[Head(todo)][fontSize], "%")
          /\ Head(todo) # root
          /\ styles[nodes[Head(todo)].parent][fontSize] = large

\* style has returned for a p of 50% in a p of 50% in a div of 32px: the
\* outer p has 16.0px and the inner one 8.0px
C14_Witness ==
    /\ spc = "done"
    /\ \E n \in NodeIds :
          /\ nodes[n].tag = pTag /\ Declaring(n, fontSize) # {} /\ Declared(n) = pct50
          /\ nodes[n].parent # 0 /\ nodes[nodes[n].parent].tag = pTag
          /\ nodes[nodes[n].parent].parent # 0
          /\ styles[nodes[nodes[n].parent].parent][fontSize] = px32
          /\ styles[nodes[n].parent][fontSize] = <<"1", "6", ".", "0", "p", "x">>
          /\ styles[n][fontSize] = <<"8", ".", "0", "p", "x">>


(***************************************************************************)
(* Properties of layout.                                                   *)
(***************************************************************************)
LayoutIds == 1..Len(lay)

BlockIds == { o \in LayoutIds : lay[o].kind = "Block" }

LineIds == { o \in LayoutIds : lay[o].kind = "Line" }

\* the objects of the layout tree under o, o included
RECURSIVE Under(_)
Under(o) ==
    {o} \cup UNION { Under(lay[o].children[k]) : k \in 1..Len(lay[o].children) }

\* C15: after every layout pass the document has exactly one child, a
\* BlockLayout at x = HSTEP, y = VSTEP of width WIDTH - 2*HSTEP, and the
\* display list paints every object under the document once.
C15_OneChildAfterEveryPass ==
    passes >= 1 =>
        /\ Len(lay[document].children) = 1
        /\ \A k \in 1..Len(lay[document].children) :
              /\ lay[lay[document].children[k]].kind = "Block"
              /\ lay[lay[document].children[k]].x = HSTEP
              /\ lay[lay[document].children[k]].y = VSTEP
              /\ lay[lay[document].children[k]].width = WIDTH - 2 * HSTEP
        /\ \A a, b \in 1..Len(display_list) :
              display_list[a] = display_list[b] /\ display_list[a].cmd = "DrawText"
                  => a = b \/ \E o, q \in Under(lay[document].children[1]) :
                                 /\ o # q
                                 /\ paint(lay, o) = <<display_list[a]>>
                                 /\ paint(lay, q) = <<display_list[a]>>

\* the heights of the first k children of object o, added up
RECURSIVE HeightOfFirst(_, _)
HeightOfFirst(o, k) ==
    IF k = 0 THEN 0 ELSE HeightOfFirst(o, k - 1) + lay[lay[o].children[k]].height

\* the heights of the children of object o
ChildHeights(o) == [k \in 1..Len(lay[o].children) |-> lay[lay[o].children[k]].height]

\* C16: in every BlockLayout, of block or inline mode, the first child is
\* at the y of the block, each later child at the y of the child before it
\* plus the height of that child, and the height of the block is the sum of
\* the heights of its children: children of heights 10, 20, 30 give 60.
C16_ChildrenStacked ==
    \A b \in BlockIds :
        /\ \A k \in 1..Len(lay[b].children) :
              /\ k = 1 => lay[lay[b].children[k]].y = lay[b].y
              /\ k > 1 => lay[lay[b].children[k]].y =
                              lay[lay[b].children[k - 1]].y
                                + lay[lay[b].children[k - 1]].height
              /\ lay[lay[b].children[k]].y = lay[b].y + HeightOfFirst(b, k - 1)
        /\ lay[b].height = HeightOfFirst(b, Len(lay[b].children))
        /\ ChildHeights(b) = <<10, 20, 30>> => lay[b].height = 60

\* a block of block mode has three children of heights 10, 20 and 30, the
\* last of them a block of inline mode whose line is as high as itself
C16_Witness ==
    \E b \in BlockIds :
        /\ ChildHeights(b) = <<10, 20, 30>>
        /\ \A k \in 1..3 : lay[lay[b].children[k]].kind = "Block"
        /\ lay[lay[b].children[3]].y = lay[b].y + 30
        /\ lay[b].height = 60
        /\ Len(lay[lay[b].children[3]].children) = 1
        /\ lay[lay[lay[b].children[3]].children[1]].kind = "Line"
        /\ lay[lay[lay[b].children[3]].children[1]].y = lay[b].y + 30
        /\ lay[lay[lay[b].children[3]].children[1]].height = 30

\* C17: on every line that holds more than one word, the right edge of each
\* word, x + width, is at most the x + width of the block.
C17_WordsWithinBlock ==
    \A l \in LineIds :
        Len(lay[l].children) > 1 =>
            \A k \in 1..Len(lay[l].children) :
                lay[lay[l].children[k]].x + lay[lay[l].children[k]].width
                    <= lay[lay[l].parent].x + lay[lay[l].parent].width

\* C18: a word wider than its block is alone on its line, with its whole
\* text in one TextLayout.
C18_WideWordAlone ==
    \A l \in LineIds :
        \A k \in 1..Len(lay[l].children) :
            lay[lay[l].children[k]].width > lay[lay[l].parent].width =>
                /\ Len(lay[l].children) = 1
                /\ \E m \in 1..Len(split(nodes[lay[lay[l].children[k]].node].text)) :
                      split(nodes[lay[lay[l].children[k]].node].text)[m]
                          = lay[lay[l].children[k]].word

\* the line after line l in its block, 0 when l is the last
NextLine(l) ==
    IF \E o \in LineIds : lay[o].previous = l /\ lay[o].parent = lay[l].parent
    THEN CHOOSE o \in LineIds : lay[o].previous = l /\ lay[o].parent = lay[l].parent
    ELSE 0

\* whether the first letter of the word w and a hyphen, in font f, fit on
\* line l after its last word and a space
PrefixFits(l, w, f) ==
    lay[Top(lay[l].children)].x + lay[Top(lay[l].children)].width
        + measure(lay[Top(lay[l].children)].font, <<" ">>)
        + measure(f, <<Head(w), "-">>)
      <= lay[lay[l].parent].x + lay[lay[l].parent].width

\* C19: a line that has words and is followed by a line whose first word
\* would have fitted on it in part, its first letter and a hyphen at least,
\* ends with a hyphenated prefix of that word.
C19_HyphenatedPrefix ==
    \A l \in LineIds :
        /\ lay[l].children # <<>>
        /\ NextLine(l) # 0
        /\ lay[NextLine(l)].children # <<>>
        /\ PrefixFits(l, lay[Head(lay[NextLine(l)].children)].word,
                      lay[Head(lay[NextLine(l)].children)].font)
        => Top(lay[Top(lay[l].children)].word) = "-"

\* the greatest ascent and the greatest descent of the words of line l
MaxAscent(l) ==
    Maximum({ ascent(lay[lay[l].children[k]].font) : k \in 1..Len(lay[l].children) })

MaxDescent(l) ==
    Maximum({ descent(lay[lay[l].children[k]].font) : k \in 1..Len(lay[l].children) })

\* C20: the words of a line that has words share a baseline, word.y + the
\* ascent of the word's font being line.y + the greatest ascent of the
\* line, and the height of the line is the greatest ascent plus the
\* greatest descent; so the top of a 16px word is below the top of a 32px
\* word of the same line by the difference of the ascents; a line without
\* words has the height 0.
C20_Baseline ==
    \A l \in LineIds :
        /\ lay[l].children = <<>> => lay[l].height = 0
        /\ lay[l].children # <<>> =>
              /\ lay[l].height = MaxAscent(l) + MaxDescent(l)
              /\ \A k \in 1..Len(lay[l].children) :
                    lay[lay[l].children[k]].y + ascent(lay[lay[l].children[k]].font)
                        = lay[l].y + MaxAscent(l)
              /\ \A j, k \in 1..Len(lay[l].children) :
                    /\ lay[lay[l].children[j]].font.size = 16
                    /\ lay[lay[l].children[k]].font.size = 32
                    => /\ lay[lay[l].children[j]].y - lay[lay[l].children[k]].y
                            = ascent(lay[lay[l].children[k]].font)
                                - ascent(lay[lay[l].children[j]].font)
                       /\ lay[lay[l].children[j]].y > lay[lay[l].children[k]].y

\* a line holds a 16px word and a 32px word, the top of the first being
\* lower; and some line has no word
C20_Witness ==
    /\ \E l \in LineIds : \E j, k \in 1..Len(lay[l].children) :
          /\ lay[lay[l].children[j]].font.size = 16
          /\ lay[lay[l].children[k]].font.size = 32
          /\ lay[lay[l].children[j]].y > lay[lay[l].children[k]].y
    /\ \E l \in LineIds : lay[l].children = <<>> /\ lay[l].height = 0

\* the free space left and right of the object o within the content box,
\* the page width less the two margins of HSTEP
FreeLeft(o) == lay[o].x - HSTEP

FreeRight(o) == (WIDTH - HSTEP) - (lay[o].x + lay[o].width)

\* the lines of an h1 that hold a single word
HeadingLines ==
    { l \in LineIds : nodes[lay[l].node].tag = h1 /\ Len(lay[l].children) = 1 }

\* C21: once <h1>Hi</h1> is laid out, the single word of a line of an h1
\* has as much free space on its left as on its right within the content
\* box, up to one pixel of rounding.
C21_HeadingCentred ==
    document # 0 =>
        \A l \in HeadingLines :
            /\ FreeLeft(lay[l].children[1]) - FreeRight(lay[l].children[1]) <= 1
            /\ FreeRight(lay[l].children[1]) - FreeLeft(lay[l].children[1]) <= 1

\* the objects of the tree under o in pre-order: o, then the subtrees of its
\* children from the first to the last
RECURSIVE PreOrder(_)
RECURSIVE PreOrderAll(_)
PreOrder(o) == <<o>> \o PreOrderAll(lay[o].children)

PreOrderAll(cs) ==
    IF cs = <<>> THEN <<>> ELSE PreOrder(Head(cs)) \o PreOrderAll(Tail(cs))

\* whether the node of block o has a background colour other than transparent
HasBackground(o) ==
    /\ backgroundColor \in DOMAIN styles[lay[o].node]
    /\ styles[lay[o].node][backgroundColor] # transparent

\* the commands the sentence gives object o itself
OwnCommands(o) ==
    IF lay[o].kind = "Block" /\ HasBackground(o)
    THEN << [cmd |-> "DrawRect", left |-> lay[o].x, top |-> lay[o].y,
             right |-> lay[o].x + lay[o].width, bottom |-> lay[o].y + lay[o].height,
             text |-> <<>>, color |-> styles[lay[o].node][backgroundColor],
             font |-> NoFont] >>
    ELSE IF lay[o].kind = "Text"
    THEN << [cmd |-> "DrawText", left |-> lay[o].x, top |-> lay[o].y,
             right |-> lay[o].x + lay[o].width, bottom |-> lay[o].y + lay[o].height,
             text |-> lay[o].word, color |-> styles[lay[o].node][color],
             font |-> lay[o].font] >>
    ELSE <<>>

\* the commands of the objects os, in their order
RECURSIVE CommandsOf(_)
CommandsOf(os) ==
    IF os = <<>> THEN <<>> ELSE OwnCommands(Head(os)) \o CommandsOf(Tail(os))

\* the places of the display list that hold a command of the kind c
Commands(c) == { k \in 1..Len(display_list) : display_list[k].cmd = c }

\* C22: the display list is the concatenation, over the objects under the
\* document in pre-order, of each object's own commands: one DrawRect of its
\* bounds for a block whose node has a background colour other than
\* transparent, one DrawText for a word, nothing for a document or a line.
C22_DisplayListPreOrder ==
    document # 0 =>
        /\ display_list = CommandsOf(PreOrder(document))
        /\ Cardinality(Commands("DrawText")) =
              Cardinality({ k \in 1..Len(PreOrder(document)) :
                              lay[PreOrder(document)[k]].kind = "Text" })
        /\ Cardinality(Commands("DrawRect")) =
              Cardinality({ k \in 1..Len(PreOrder(document)) :
                              /\ lay[PreOrder(document)[k]].kind = "Block"
                              /\ HasBackground(PreOrder(document)[k]) })

\* a painted page with a block that has a background, drawn before the word
\* under it, and a block that has none
C22_Witness ==
    /\ document # 0
    /\ \E b \in BlockIds : ~HasBackground(b)
    /\ \E k \in Commands("DrawRect") :
          /\ k < Len(display_list)
          /\ display_list[k + 1].cmd = "DrawText"
          /\ display_list[k].color = gray
          /\ display_list[k].bottom > display_list[k].top

\* the points of the document probed for a hit
ProbeX == {0, 13, 30, 1267}

ProbeY == {17, 18, 40}

\* the place of object o in the sequence list
PlaceIn(list, o) == CHOOSE k \in 1..Len(list) : list[k] = o

\* C23: tree_to_list returns every object under the document exactly once,
\* each after its parent; every object has a rectangle; and for a point
\* that some object holds, the last object of the list that holds it has no
\* other object under it that holds the point.
C23_FlattenPreOrder ==
    document # 0 =>
        /\ Len(tree_to_list(lay, document, <<>>)) = Cardinality(Under(document))
        /\ { tree_to_list(lay, document, <<>>)[k] :
                k \in 1..Len(tree_to_list(lay, document, <<>>)) } = Under(document)
        /\ \A o \in Under(document) \ {document} :
              PlaceIn(tree_to_list(lay, document, <<>>), lay[o].parent)
                < PlaceIn(tree_to_list(lay, document, <<>>), o)
        /\ \A o \in Under(document) :
              lay[o].x >= 0 /\ lay[o].y >= 0 /\ lay[o].width >= 0 /\ lay[o].height >= 0
        /\ \A x1 \in ProbeX, y1 \in ProbeY :
              click_objs(lay, document, x1, y1) # <<>> =>
                  \A o \in Under(LastOf(click_objs(lay, document, x1, y1))) :
                      \/ o = LastOf(click_objs(lay, document, x1, y1))
                      \/ ~Contains(lay[o], x1, y1)

\* a laid-out page where a probed point lies in a word, in its line and in
\* the blocks above, and the last object that holds it is the word
C23_Witness ==
    /\ document # 0
    /\ \E x1 \in ProbeX, y1 \in ProbeY :
          /\ Len(click_objs(lay, document, x1, y1)) >= 4
          /\ lay[LastOf(click_objs(lay, document, x1, y1))].kind = "Text"
          /\ lay[click_objs(lay, document, x1, y1)[1]].kind = "Document"

\* the properties style resolves on every node
ResolvedProperties == {fontSize, fontStyle, fontWeight, color}

\* C24: DocumentLayout.layout returns a geometry tree only for a tree whose
\* every node has font-size, font-style, font-weight and color resolved.
C24_UnstyledRejected ==
    (document # 0 /\ lay[document].height # NoneNum) =>
        \A n \in NodeIds : ResolvedProperties \subseteq DOMAIN styles[n]

\* the tags that may come to implicit_tags: None for text, opening tags,
\* closing tags
RepairTags ==
    { None, html, head, bodyTag, closeHead, closeHtml,
      <<"t", "i", "t", "l", "e">>, <<"b">>, <<"/", "a">> }

\* whether the loop of implicit_tags, entered with the parser in state P,
\* breaks within fuel iterations, the call of implicit_tags inside each
\* add_tag of the loop breaking at once
RECURSIVE RepairExits(_, _, _)
RepairExits(P, tag, fuel) ==
    \/ implicit_tag(open_tags(P), tag) = None
    \/ /\ fuel > 0
       /\ implicit_tag(open_tags(P), implicit_tag(open_tags(P), tag)) = None
       /\ RepairExits(add_tag_branch(P, implicit_tag(open_tags(P), tag), EmptyDict),
                      tag, fuel - 1)

\* C25: parse terminates: each iteration of the scanning loop returns,
\* raises or moves on in the input by at least one character without
\* overrunning it, and from every stack of open elements and for every tag
\* the loop of implicit_tags breaks after at most two iterations.
C25_ParseTerminates ==
    /\ [](i <= Len(body))
    /\ [][pc = "scan" => (pc' # "scan" \/ i' > i)]_vars
    /\ [](\A tag \in RepairTags : RepairExits(Parser, tag, 2))

\* parse has returned for <head></a>: a closing tag came while only html
\* and head were open, and the loop closed the head and opened a body
C25_Witness ==
    /\ pc = "done"
    /\ body = <<"<", "h", "e", "a", "d", ">", "<", "/", "a", ">">>
    /\ Len(nodes) = 3
    /\ nodes[3].tag = bodyTag

(***************************************************************************)
(* Properties of a tab.                                                    *)
(***************************************************************************)
\* C26: go_back on a history of n > 1 entries leaves the first n - 1
\* entries as the history and the tab on the page of entry n - 1, laid out
\* anew; on a history of at most one entry it changes nothing.
C26_GoBack ==
    [][GoBack =>
        IF Len(history) > 1
        THEN /\ history' = SubSeq(history, 1, Len(history) - 1)
             /\ url' = history[Len(history) - 1]
             /\ root' = RootAt(history[Len(history) - 1])
             /\ lay'[document'].node = root'
             /\ lay'[document'].height # NoneNum
             /\ passes' = 1
        ELSE UNCHANGED vars]_vars

\* the tab is back on the short page, still scrolled as it was on the long
\* page that has left the history
C26_Witness ==
    /\ history = <<"short">>
    /\ url = "short"
    /\ root = RootAt("short")
    /\ scroll = 176

\* the bound of scroll for the document loaded
MaxScroll == Max(lay[document].height + 2 * VSTEP - tab_height, 0)

\* C27: once a page is loaded, 0 <= scroll <= max(document.height +
\* 2*VSTEP - tab_height, 0) after every operation.
C27_ScrollWithinContent ==
    document # 0 => (0 <= scroll /\ scroll <= MaxScroll)

\* C28: once a page is loaded the history is not empty and its last entry
\* is the current URL; before, the history is empty and there is no URL.
C28_HistoryEndsAtUrl ==
    /\ document # 0 => (history # <<>> /\ history[Len(history)] = url)
    /\ document = 0 => (history = <<>> /\ url = NoURL)

\* a load after a go_back: the long page has left the history, the mid
\* page is its last entry and the current URL
C28_Witness ==
    /\ history = <<"short", "mid">>
    /\ url = "mid"
    /\ scroll = 176

\* C29: scroll_down and scroll_page_down never decrease scroll, scroll_up
\* and scroll_page_up never increase it.
C29_ScrollMonotone ==
    [][/\ (ScrollDown \/ ScrollPageDown) => scroll' >= scroll
       /\ (ScrollUp \/ ScrollPageUp) => scroll' <= scroll]_vars

\* the children list of node n lists nodes in the order they were created;
\* the parser scans left to right and creates a text node at the "<" that
\* ends its run and an element at the ">" of its opening tag, so the order
\* of creation in the node store is the order of their starts in the input
InSourceOrder(n) ==
    \A j, k \in 1..Len(nodes[n].children) :
        j < k => nodes[n].children[j] < nodes[n].children[k]

\* C30: the children of every Element are in source order, while parsing and
\* in the tree returned, although an open element is in no children list
\* until it is closed: every child its parent already has started before it.
C30_ChildrenInSourceOrder ==
    /\ [](\A n \in NodeIds : InSourceOrder(n))
    /\ [](pc = "scan" =>
            \A k \in 2..Len(unfinished) :
                /\ Slots(unfinished[k]) = {}
                /\ \A c \in Children(unfinished[k - 1]) : c < unfinished[k])
    /\ [](pc = "done" => \A n \in NodeIds \ {root} : Cardinality(Slots(n)) = 1)

\* <B></a>x has been parsed: the body holds the element b, appended when it
\* was closed, and after it the text x
C30_Witness ==
    /\ pc = "done"
    /\ body = tokB \o tokCloseA \o <<"x">>
    /\ \E n \in NodeIds :
          /\ nodes[n].tag = bodyTag
          /\ Len(nodes[n].children) = 2
          /\ nodes[nodes[n].children[1]].tag = <<"b">>
          /\ nodes[nodes[n].children[2]].kind = "Text"
          /\ nodes[nodes[n].children[2]].text = <<"x">>

====
